---- MODULE Spec2Model ----
(***************************************************************************)
(* A model of the schedule-directed loop transformations of hcl-dialect    *)
(* (lib/Transforms/LoopTransformations.cpp).                               *)
(*                                                                         *)
(* Values.  Every SSA value that an index can depend on has a natural      *)
(* number as identity: the induction variable of a loop (the loop's id)    *)
(* and the result of an affine.apply operation (a key of the stage's       *)
(* `defs`).  Loop bounds are affine maps with simplified results, kept as  *)
(* linear forms; the maps of affine.apply, affine.load and affine.store    *)
(* are kept as expression trees.                                           *)
(***************************************************************************)
EXTENDS Integers, Sequences, FiniteSets, TLC

VARIABLES fn, arr, last, steps, ru, drv

vars == <<fn, arr, last, steps, ru, drv>>

(***************************************************************************)
(* Bounds of the model.                                                    *)
(***************************************************************************)
MaxExtent == 4
MaxFactor == 3
MaxSteps == 1
MaxRank == 2

(***************************************************************************)
(* Affine expressions (mlir::AffineExpr) as trees.                         *)
(***************************************************************************)
Dim(i) == [op |-> "dim", id |-> i]
Cst(c) == [op |-> "cst", v |-> c]
Add(a, b) == [op |-> "add", l |-> a, r |-> b]
Mul(a, c) == [op |-> "mul", l |-> a, k |-> c]
FloorDiv(a, c) == [op |-> "floordiv", l |-> a, k |-> c]
Mod(a, c) == [op |-> "mod", l |-> a, k |-> c]

RECURSIVE EvalE(_, _, _)
\* The value of expression e when the induction variables have the values
\* env; an id that is no induction variable is the result of the
\* affine.apply defs[id].
EvalE(e, env, defs) ==
  CASE e.op = "dim" -> IF e.id \in DOMAIN env THEN env[e.id]
                       ELSE EvalE(defs[e.id], env, defs)
    [] e.op = "cst" -> e.v
    [] e.op = "add" -> EvalE(e.l, env, defs) + EvalE(e.r, env, defs)
    [] e.op = "mul" -> EvalE(e.l, env, defs) * e.k
    [] e.op = "floordiv" -> EvalE(e.l, env, defs) \div e.k
    [] e.op = "mod" -> EvalE(e.l, env, defs) % e.k

RECURSIVE SubstE(_, _, _)
\* Value::replaceAllUsesWith on the operand `id` of an expression.
SubstE(e, id, by) ==
  CASE e.op = "dim" -> IF e.id = id THEN by ELSE e
    [] e.op = "cst" -> e
    [] e.op = "add" -> Add(SubstE(e.l, id, by), SubstE(e.r, id, by))
    [] e.op \in {"mul", "floordiv", "mod"} ->
         [e EXCEPT !.l = SubstE(e.l, id, by)]

(***************************************************************************)
(* Linear forms c + sum t[i] * value(i): a simplified affine bound.        *)
(***************************************************************************)
LFC(c) == [c |-> c, t |-> <<>>]
LFD(i) == [c |-> 0, t |-> (i :> 1)]
Coef(a, i) == IF i \in DOMAIN a.t THEN a.t[i] ELSE 0
LFAdd(a, b) ==
  LET ids == {i \in DOMAIN a.t \cup DOMAIN b.t : Coef(a, i) + Coef(b, i) # 0}
  IN  [c |-> a.c + b.c, t |-> [i \in ids |-> Coef(a, i) + Coef(b, i)]]
LFScale(a, k) ==
  IF k = 0 THEN LFC(0)
  ELSE [c |-> a.c * k, t |-> [i \in DOMAIN a.t |-> a.t[i] * k]]
LFSub(a, b) == LFAdd(a, LFScale(b, -1))
\* AffineMap::compose / replaceAllUsesWith: value i replaced by the form b.
LFSubst(a, i, b) ==
  IF i \in DOMAIN a.t
  THEN LFAdd([c |-> a.c, t |-> [j \in DOMAIN a.t \ {i} |-> a.t[j]]],
             LFScale(b, a.t[i]))
  ELSE a
LFIsConst(a) == DOMAIN a.t = {}

RECURSIVE ToLF(_)
\* The linear form of an expression without floordiv and mod.
ToLF(e) ==
  CASE e.op = "dim" -> LFD(e.id)
    [] e.op = "cst" -> LFC(e.v)
    [] e.op = "add" -> LFAdd(ToLF(e.l), ToLF(e.r))
    [] e.op = "mul" -> LFScale(ToLF(e.l), e.k)

RECURSIVE ToExpr(_, _)
ToExpr(a, ids) ==
  IF ids = {} THEN Cst(a.c)
  ELSE LET i == CHOOSE j \in ids : \A k \in ids : j <= k
       IN  Add(Mul(Dim(i), a.t[i]), ToExpr(a, ids \ {i}))
LFExpr(a) == ToExpr(a, DOMAIN a.t)

LFEval(a, env, defs) == EvalE(LFExpr(a), env, defs)

CeilDiv(a, b) == (a + b - 1) \div b
Min(S) == CHOOSE x \in S : \A y \in S : x <= y
Max(S) == CHOOSE x \in S : \A y \in S : x >= y
SeqToSet(s) == {s[i] : i \in 1..Len(s)}

(***************************************************************************)
(* Loop-nest IR.  A stage is a perfectly nested band, outermost first; the *)
(* body statement is indexed by one expression per loop of the source      *)
(* program (`body`), whose extents are `orig`.                             *)
(***************************************************************************)
NoName == <<>>
NoStage == ""

ForLoop(id, name, ub, stage) ==
  [id |-> id, name |-> name, lb |-> LFC(0), ub |-> <<LFC(ub)>>, step |-> 1,
   attrs |-> IF stage = NoStage THEN <<>> ELSE ("stage_name" :> stage)]

hasAttr(l, a) == a \in DOMAIN l.attrs
getLoopName(l) == l.name
hasConstantLowerBound(l) == LFIsConst(l.lb)
hasConstantUpperBound(l) == Len(l.ub) = 1 /\ LFIsConst(l.ub[1])
setAttr(l, a, v) ==
  [l EXCEPT !.attrs = [k \in DOMAIN l.attrs \cup {a} |->
                          IF k = a THEN v ELSE l.attrs[k]]]
\* A removeAttr that leaves the attribute where it is.
removeAttrKept(l, a) == l
removeAttr(l, a) ==
  [l EXCEPT !.attrs = [k \in DOMAIN l.attrs \ {a} |-> l.attrs[k]]]
setStageName(l, s) == setAttr(l, "stage_name", s)

\* The upper bound of a normalized loop under env: the min of its results.
UbValue(l, env, defs) ==
  Min({LFEval(l.ub[j], env, defs) : j \in 1..Len(l.ub)})

RECURSIVE Points(_, _, _, _)
\* The iterations of loops k.. of a normalized nest, as assignments to the
\* induction variables, extending the assignments envs of the outer loops.
Points(loops, k, envs, defs) ==
  IF k > Len(loops) THEN envs
  ELSE Points(loops, k + 1,
              UNION {{env @@ (loops[k].id :> v) :
                        v \in 0..(UbValue(loops[k], env, defs) - 1)} :
                     env \in envs},
              defs)

IterPoints(st) == Points(st.loops, 1, {<<>>}, st.defs)
BodyIndex(st, env) == [k \in 1..Len(st.body) |-> EvalE(st.body[k], env, st.defs)]
OrigSpace(st) ==
  {t \in [1..Len(st.orig) -> 0..(MaxExtent - 1)] :
     \A k \in 1..Len(st.orig) : t[k] < st.orig[k]}
\* The body runs exactly once for every index tuple of the source program
\* and for no other tuple.
ExecutesOrigOnce(st) ==
  LET pts == IterPoints(st)
  IN  /\ \A env \in pts : BodyIndex(st, env) \in OrigSpace(st)
      /\ \A t \in OrigSpace(st) :
           Cardinality({env \in pts : BodyIndex(st, env) = t}) = 1

(***************************************************************************)
(* A stage is [loops, defs, body, orig, nid]: nid is the next unused value *)
(* id.  A function is [stages, handles]: its top-level stage loops in      *)
(* program order and the hcl.create_loop_handle / create_stage_handle      *)
(* operations it holds.                                                    *)
(***************************************************************************)
LoopHandle(n) == [kind |-> "loop", name |-> n]
StageHandle(n) == [kind |-> "stage", name |-> n]
Error(m) == [sev |-> "error", msg |-> m]
Warning(m) == [sev |-> "warning", msg |-> m]
NoFunc == [stages |-> <<>>, handles |-> <<>>]
NoArray == [shape |-> <<>>, layout |-> <<>>, acc |-> <<>>]
\* No rewritten loop is being executed; no schedule program is being driven.
NoRun == [st |-> "none"]
NoDriver == [mode |-> "none"]
Outcome(r, f, d) == [res |-> r, f |-> f, diags |-> d]
\* The outcomes of executing undefined behaviour (a use of an erased
\* operation, a dereferenced end iterator, a failed cast) with the IR f
\* reached so far: the process dies, or it goes on with a corrupted result.
Undefined(f) == {Outcome("crash", f, <<>>), Outcome("undefined", f, <<>>)}

RECURSIVE SubstAllE(_, _, _)
SubstAllE(e, olds, news) ==
  IF olds = <<>> THEN e
  ELSE SubstAllE(SubstE(e, Head(olds), Dim(Head(news))), Tail(olds), Tail(news))
RECURSIVE SubstAllLF(_, _, _)
SubstAllLF(a, olds, news) ==
  IF olds = <<>> THEN a
  ELSE SubstAllLF(LFSubst(a, Head(olds), LFD(Head(news))), Tail(olds), Tail(news))

\* The stage of function f tagged stage_name n (0: none).
GetStage(f, n) ==
  LET S == {s \in 1..Len(f.stages) :
              /\ hasAttr(f.stages[s].loops[1], "stage_name")
              /\ f.stages[s].loops[1].attrs["stage_name"] = n}
  IN  IF S = {} THEN 0 ELSE Min(S)

PosOfId(st, id) == CHOOSE p \in 1..Len(st.loops) : st.loops[p].id = id
HasLoopId(st, id) == \E p \in 1..Len(st.loops) : st.loops[p].id = id

\* mlir::tilePerfectlyNested on the band of Len(sizes) loops starting at
\* depth d (constant bounds): the tile-space loops keep the bounds and step
\* by the tile size; the intra-tile loops run from the tile-space induction
\* variable to min(it + size, ub) (no min when size divides the trip
\* count); the body moves to the innermost new loop.
TilePerfectlyNested(st, d, sizes) ==
  LET w == Len(sizes)
      o(k) == st.loops[d + k - 1]
      outerId(k) == st.nid + k - 1
      innerId(k) == st.nid + w + k - 1
      olds == [k \in 1..w |-> o(k).id]
      news == [k \in 1..w |-> innerId(k)]
      outer(k) == [id |-> outerId(k), name |-> NoName, lb |-> o(k).lb,
                   ub |-> o(k).ub, step |-> sizes[k] * o(k).step,
                   attrs |-> <<>>]
      shift(k) == LFAdd(LFD(outerId(k)), LFC(sizes[k] * o(k).step))
      inner(k) == [id |-> innerId(k), name |-> NoName,
                   lb |-> LFD(outerId(k)),
                   ub |-> IF o(k).ub[1].c % sizes[k] # 0
                          THEN <<shift(k)>> \o o(k).ub
                          ELSE <<shift(k)>>,
                   step |-> o(k).step, attrs |-> <<>>]
      rest == [p \in 1..(Len(st.loops) - d - w + 1) |->
                 LET l == st.loops[d + w + p - 1]
                 IN  [l EXCEPT !.lb = SubstAllLF(l.lb, olds, news),
                               !.ub = [j \in 1..Len(l.ub) |->
                                          SubstAllLF(l.ub[j], olds, news)]]]
  IN  [st EXCEPT
         !.loops = SubSeq(st.loops, 1, d - 1)
                     \o [k \in 1..w |-> outer(k)]
                     \o [k \in 1..w |-> inner(k)]
                     \o rest,
         !.defs = [a \in DOMAIN st.defs |-> SubstAllE(st.defs[a], olds, news)],
         !.body = [k \in 1..Len(st.body) |-> SubstAllE(st.body[k], olds, news)],
         !.nid = st.nid + 2 * w]

\* (ub - lb) ceildiv step, for the bounds that stay affine.
LFCeilDiv(a, s) ==
  CASE s = 1 -> a
    [] s # 1 /\ LFIsConst(a) -> LFC(CeilDiv(a.c, s))

\* The affine.apply that normalizeAffineFor put at the start of loop id's
\* body: iv * step + lb.
NormApplies(st, id) ==
  {a \in DOMAIN st.defs :
     /\ st.defs[a].op = "add"
     /\ st.defs[a].l.op = "mul"
     /\ st.defs[a].l.l = Dim(id)}

\* mlir::normalizeAffineFor on the loop with induction variable id.  A loop
\* with a constant trip count of 1 is promoted into its parent (the loop is
\* erased, its induction variable replaced by the lower bound); a loop with
\* lower bound 0 and step 1 is left alone; any other loop gets lower bound
\* 0, step 1, upper bounds (ub - lb) ceildiv step, and an affine.apply
\* iv * step + lb that replaces every use of the induction variable.
NormalizeAffineFor(st, id) ==
  LET p == PosOfId(st, id)
      l == st.loops[p]
      diffs == [j \in 1..Len(l.ub) |-> LFSub(l.ub[j], l.lb)]
      constTrip == \A j \in 1..Len(diffs) : LFIsConst(diffs[j])
      trip == Min({CeilDiv(diffs[j].c, l.step) : j \in 1..Len(diffs)})
      a == st.nid
      inner(by) == [q \in 1..(Len(st.loops) - p) |->
                     LET m == st.loops[p + q]
                     IN  [m EXCEPT !.lb = LFSubst(m.lb, id, by),
                                   !.ub = [j \in 1..Len(m.ub) |->
                                              LFSubst(m.ub[j], id, by)]]]
  IN  IF constTrip /\ trip = 1
      THEN [st EXCEPT
              !.loops = SubSeq(st.loops, 1, p - 1) \o inner(l.lb),
              !.defs = [b \in DOMAIN st.defs |->
                          SubstE(st.defs[b], id, LFExpr(l.lb))],
              !.body = [k \in 1..Len(st.body) |->
                          SubstE(st.body[k], id, LFExpr(l.lb))]]
      ELSE IF LFIsConst(l.lb) /\ l.lb.c = 0 /\ l.step = 1
      THEN st
      ELSE [st EXCEPT
              !.loops = SubSeq(st.loops, 1, p - 1)
                          \o <<[l EXCEPT !.lb = LFC(0), !.step = 1,
                                         !.ub = [j \in 1..Len(diffs) |->
                                                   LFCeilDiv(diffs[j], l.step)]]>>
                          \o inner(LFD(a)),
              !.defs = [b \in DOMAIN st.defs \cup {a} |->
                          IF b = a
                          THEN Add(Mul(Dim(id), l.step), LFExpr(l.lb))
                          ELSE SubstE(st.defs[b], id, Dim(a))],
              !.body = [k \in 1..Len(st.body) |->
                          SubstE(st.body[k], id, Dim(a))],
              !.nid = st.nid + 1]

\* The loop that a post-order walk of the stage meets first among those
\* named n: the deepest one (0: none).
FindLoop(st, n) ==
  LET P == {p \in 1..Len(st.loops) : getLoopName(st.loops[p]) = n}
  IN  IF P = {} THEN 0 ELSE Max(P)

SetStage(f, s, st) == [f EXCEPT !.stages[s] = st]
AddHandles(f, hs) == [f EXCEPT !.handles = f.handles \o hs]
\* A renaming that leaves the loop its name.
RenameLoopKept(st, id, n) == st
RenameLoop(st, id, n) ==
  [st EXCEPT !.loops[PosOfId(st, id)].name = n]

\* Step 5 of runSplitting and runTiling on the intra-tile loop `id` whose
\* tile-space loop is `outerId`: a constant upper bound map is set again as
\* a constant; otherwise the second result is composed with the map of the
\* affine.apply that is the bound's operand, which makes it a function of
\* the tile-space induction variable.
ComposeUpperBound(st, id) ==
  LET p == PosOfId(st, id)
      l == st.loops[p]
  IN  IF \A j \in 1..Len(l.ub) : LFIsConst(l.ub[j])
      THEN [st EXCEPT !.loops[p].ub = <<l.ub[1]>>]
      ELSE LET a == CHOOSE v \in DOMAIN l.ub[2].t : TRUE
           IN  [st EXCEPT !.loops[p].ub =
                  <<l.ub[1], LFSubst(l.ub[2], a, ToLF(st.defs[a]))>>]

\* runSplitting(f, splitOp): the outcomes of hcl.split(stage, loop, factor).
RunSplitting(f, op) ==
  LET s == GetStage(f, op.stage)
      st == f.stages[s]
      p == FindLoop(st, op.loop)
      isOuterMost == hasAttr(st.loops[p], "stage_name")
      tiled == TilePerfectlyNested(st, p, <<op.factor>>)
      t0 == st.nid
      t1 == st.nid + 1
      n0 == NormalizeAffineFor(tiled, t0)
      n1 == NormalizeAffineFor(n0, t1)
      c1 == ComposeUpperBound(n1, t1)
      outerName == op.loop \o <<".outer">>
      innerName == op.loop \o <<".inner">>
      named == RenameLoop(RenameLoop(c1, t0, outerName), t1, innerName)
      tagged == IF isOuterMost
                THEN [named EXCEPT !.loops[PosOfId(named, t0)] =
                                      setStageName(@, op.stage)]
                ELSE named
  IN  IF s = 0
      THEN {Outcome("failure", f, <<Error("Cannot find Stage")>>)}
      ELSE IF p = 0
      THEN {Outcome("failure", f, <<Error("Cannot find Loop")>>)}
      ELSE IF ~hasConstantUpperBound(st.loops[p])
      THEN Undefined(f)
      ELSE IF op.factor >= st.loops[p].ub[1].c
      THEN {Outcome("failure", f,
                    <<Error("The requested tiling factor is larger than the upper bound")>>)}
      ELSE IF ~HasLoopId(n0, t0) \/ ~HasLoopId(n1, t1)
      THEN Undefined(SetStage(f, s, n1))
      ELSE IF NormApplies(c1, t0) = {} \/ NormApplies(c1, t1) = {}
      THEN Undefined(SetStage(f, s, c1))
      ELSE {Outcome("success",
                    AddHandles(SetStage(f, s, tagged),
                               <<LoopHandle(outerName), LoopHandle(innerName)>>),
                    <<>>)}

\* A loop whose bound takes the result of an affine.apply: the apply sits
\* in the parent's body in front of the loop.
BoundUsesApply(st, l) ==
  \/ DOMAIN l.lb.t \cap DOMAIN st.defs # {}
  \/ \E j \in 1..Len(l.ub) : DOMAIN l.ub[j].t \cap DOMAIN st.defs # {}

\* findContiguousNestedLoops tried from every loop of the stage, deepest
\* first: the depth from which the loops carry the names of nameArr, each
\* the first operation of the body of the one before (0: none).
FindContiguousNestedLoops(st, nameArr) ==
  LET P == {p \in 1..(Len(st.loops) - Len(nameArr) + 1) :
              /\ \A i \in 1..Len(nameArr) :
                    getLoopName(st.loops[p + i - 1]) = nameArr[i]
              /\ \A i \in 2..Len(nameArr) :
                    ~BoundUsesApply(st, st.loops[p + i - 1])}
  IN  IF P = {} THEN 0 ELSE Max(P)

\* mlir::getPerfectlyNestedLoops from the root of the stage: the number of
\* loops of the maximal band in which every body holds one loop only.
PerfectNest(st) ==
  LET R == {r \in 2..Len(st.loops) : BoundUsesApply(st, st.loops[r])}
  IN  IF R = {} THEN Len(st.loops) ELSE Min(R) - 1

RECURSIVE NormalizeAll(_, _)
NormalizeAll(st, ids) ==
  IF ids = <<>> THEN st
  ELSE NormalizeAll(NormalizeAffineFor(st, Head(ids)), Tail(ids))
RECURSIVE RenameLoops(_, _, _)
\* setLoopNames: the i-th loop of the band gets the i-th name.
RenameLoops(st, ids, names) ==
  IF ids = <<>> THEN st
  ELSE RenameLoops(RenameLoop(st, Head(ids), Head(names)), Tail(ids),
                   Tail(names))

\* runTiling(f, tileOp): the outcomes of hcl.tile(stage, x, y, fx, fy).
\* tiledNest is [x tile-space, y tile-space, x intra-tile, y intra-tile].
RunTiling(f, op) ==
  LET s == GetStage(f, op.stage)
      st == f.stages[s]
      p == FindContiguousNestedLoops(st, <<op.x, op.y>>)
      isOuterMost == hasAttr(st.loops[p], "stage_name")
      tiled == TilePerfectlyNested(st, p, <<op.xf, op.yf>>)
      tiledNest == [i \in 1..4 |-> st.nid + i - 1]
      n == NormalizeAll(tiled, tiledNest)
      c == ComposeUpperBound(ComposeUpperBound(n, tiledNest[3]), tiledNest[4])
      newNameArr == <<op.x \o <<".outer">>, op.x \o <<".inner">>,
                      op.y \o <<".outer">>, op.y \o <<".inner">>>>
      named == RenameLoops(c, tiledNest, newNameArr)
      tagged == IF isOuterMost
                THEN [named EXCEPT !.loops[PosOfId(named, tiledNest[1])] =
                                      setStageName(@, op.stage)]
                ELSE named
  IN  IF s = 0
      THEN {Outcome("failure", f, <<Error("Cannot find Stage")>>)}
      ELSE IF p = 0
      THEN {Outcome("failure", f,
                    <<Error("Cannot find contiguous nested loops")>>)}
      ELSE IF ~hasConstantUpperBound(st.loops[p])
      THEN Undefined(f)
      ELSE IF op.xf >= st.loops[p].ub[1].c
      THEN {Outcome("failure", f,
                    <<Error("The requested tiling factor is larger than the upper bound")>>)}
      ELSE IF ~hasConstantUpperBound(st.loops[p + 1])
      THEN Undefined(f)
      ELSE IF op.yf >= st.loops[p + 1].ub[1].c
      THEN {Outcome("failure", f,
                    <<Error("The requested tiling factor is larger than the upper bound")>>)}
      ELSE IF \E i \in 1..4 : ~HasLoopId(n, tiledNest[i])
      THEN Undefined(SetStage(f, s, n))
      ELSE IF \E i \in 1..4 : NormApplies(c, tiledNest[i]) = {}
      THEN Undefined(SetStage(f, s, c))
      ELSE {Outcome("success",
                    AddHandles(SetStage(f, s, tagged),
                               [i \in 1..4 |-> LoopHandle(newNameArr[i])]),
                    <<>>)}

IndexOf(seq, x) ==
  LET P == {i \in 1..Len(seq) : seq[i] = x}
  IN  IF P = {} THEN Len(seq) + 1 ELSE Min(P)
Count(seq, n, x) == Cardinality({i \in 1..n : seq[i] = x})

\* A step 5.2 that keeps every loop where it is.
NewOrderKept(oldLoopNames, args) == oldLoopNames

\* Step 5.2 of runReordering: every nest position that holds a listed loop
\* takes the next argument, the other positions keep their loop.
NewOrder(oldLoopNames, args) ==
  [i \in 1..Len(oldLoopNames) |->
     IF oldLoopNames[i] \in SeqToSet(args)
     THEN LET c == Cardinality({j \in 1..(i - 1) :
                                  oldLoopNames[j] \in SeqToSet(args)})
          IN  args[c + 1]
     ELSE oldLoopNames[i]]
\* Step 5.3: permMap[i] is the new depth (from 1) of the i-th old loop;
\* Len + 1 when std::find meets the end.
PermMap(oldLoopNames, args) ==
  [i \in 1..Len(oldLoopNames) |->
     IndexOf(NewOrder(oldLoopNames, args), oldLoopNames[i])]
IsPermutation(pm) ==
  /\ \A i \in 1..Len(pm) : pm[i] \in 1..Len(pm)
  /\ \A i, j \in 1..Len(pm) : pm[i] = pm[j] => i = j
\* mlir::permuteLoops: the i-th loop of the nest moves to depth permMap[i].
PermuteLoops(nest, pm) ==
  [d \in 1..Len(nest) |-> nest[CHOOSE i \in 1..Len(nest) : pm[i] = d]]

\* runReordering(f, reorderOp): the outcomes of hcl.reorder(stage, args).
RunReordering(f, op) ==
  LET s == GetStage(f, op.stage)
      st == f.stages[s]
      m == PerfectNest(st)
      nest == SubSeq(st.loops, 1, m)
      oldLoopNames == [i \in 1..m |-> getLoopName(nest[i])]
      permMap == PermMap(oldLoopNames, op.loops)
      O == {i \in 1..m : permMap[i] = 1}
      outerMostIdx == IF O = {} THEN 1 ELSE Max(O)
      untagged == IF outerMostIdx # 1
                  THEN [nest EXCEPT ![1] = removeAttr(@, "stage_name"),
                                    ![outerMostIdx] = setStageName(@, op.stage)]
                  ELSE nest
      permuted == PermuteLoops(untagged, permMap)
  IN  IF Len(op.loops) < 2
      THEN {Outcome("failure", f,
                    <<Error("Should at least input 2 loops to be reordered")>>)}
      ELSE IF s = 0
      THEN {Outcome("failure", f, <<Error("Cannot find Stage")>>)}
      ELSE IF m < 2
      THEN {Outcome("failure", f, <<Error("Cannot permute the loops")>>)}
      ELSE IF ~IsPermutation(permMap)
      THEN Undefined(f)
      ELSE {Outcome("success",
                    SetStage(f, s, [st EXCEPT !.loops =
                       permuted \o SubSeq(st.loops, m + 1, Len(st.loops))]),
                    <<>>)}

\* A quotient divided by the range of the level itself.
QuotientRangeOwn(ubs, idx) == ubs[idx]

\* The range the running quotient is divided by at level idx (from 1): the
\* trip count of the loop just inside it, upperBoundSymbols[idx] from 0.
QuotientRange(ubs, idx) == ubs[idx + 1]

RECURSIVE Remap(_, _, _, _, _, _, _)
\* Step 3 of coalesceLoops for idx down to 1: `previous` is the running
\* quotient, `nid` the next unused id; the result holds the new
\* affine.apply operations and, per loop of the band, the value that
\* replaces its induction variable.
Remap(ids, ubs, idx, previous, nid, defs, repl) ==
  IF idx = 0 THEN [defs |-> defs, repl |-> repl, nid |-> nid]
  ELSE LET k == Len(ids)
           quot == idx # k
           prev1 == IF quot THEN nid ELSE previous
           nid1 == IF quot THEN nid + 1 ELSE nid
           defs1 == IF quot
                    THEN defs @@ (nid :> FloorDiv(Dim(previous), QuotientRange(ubs, idx)))
                    ELSE defs
           iv == IF idx = 1 THEN prev1 ELSE nid1
           nid2 == IF idx = 1 THEN nid1 ELSE nid1 + 1
           defs2 == IF idx = 1 THEN defs1
                    ELSE defs1 @@ (nid1 :> Mod(Dim(prev1), ubs[idx]))
       IN  Remap(ids, ubs, idx - 1, prev1, nid2, defs2,
                 repl @@ (ids[idx] :> iv))

Product(seq) ==
  LET RECURSIVE P(_)
      P(i) == IF i = 0 THEN 1 ELSE P(i - 1) * seq[i]
  IN  P(Len(seq))

\* coalesceLoops(loops, stageLoop) on the band of k loops at depth p:
\* ok is FALSE for a band it does not work on, else st is the stage with
\* the loops merged into the outermost one.
CoalesceLoops(st, p, k) ==
  LET band == SubSeq(st.loops, p, p + k - 1)
      ids == [i \in 1..k |-> band[i].id]
      ubs == [i \in 1..k |-> band[i].ub[1].c]
      r == Remap(ids, ubs, k, ids[1], st.nid, <<>>, <<>>)
      olds == ids
      news == [i \in 1..k |-> r.repl[ids[i]]]
      merged == [band[1] EXCEPT !.ub = <<LFC(Product(ubs))>>]
      rest == [q \in 1..(Len(st.loops) - p - k + 1) |->
                 LET l == st.loops[p + k + q - 1]
                 IN  [l EXCEPT !.lb = SubstAllLF(l.lb, olds, news),
                               !.ub = [j \in 1..Len(l.ub) |->
                                          SubstAllLF(l.ub[j], olds, news)]]]
  IN  IF k < 2 THEN [ok |-> FALSE]
      ELSE IF \E i \in 1..k :
                \/ band[i].step # 1
                \/ ~hasConstantLowerBound(band[i])
                \/ band[i].lb.c # 0
                \/ ~hasConstantUpperBound(band[i])
      THEN [ok |-> FALSE]
      ELSE [ok |-> TRUE,
            st |-> [st EXCEPT
              !.loops = SubSeq(st.loops, 1, p - 1) \o <<merged>> \o rest,
              !.defs = [a \in DOMAIN st.defs |->
                          SubstAllE(st.defs[a], olds, news)] @@ r.defs,
              !.body = [d \in 1..Len(st.body) |->
                          SubstAllE(st.body[d], olds, news)],
              !.nid = r.nid]]

RECURSIVE FusedName(_)
\* Every name followed by "_", then "fused".
FusedName(nameArr) ==
  IF nameArr = <<>> THEN <<"fused">>
  ELSE Head(nameArr) \o <<"_">> \o FusedName(Tail(nameArr))

\* runFusing(f, fuseOp): the outcomes of hcl.fuse(stage, args).
RunFusing(f, op) ==
  LET s == GetStage(f, op.stage)
      st == f.stages[s]
      nameArr == op.loops
      p == FindContiguousNestedLoops(st, nameArr)
      isOuterMost == hasAttr(st.loops[p], "stage_name")
      co == CoalesceLoops(st, p, Len(nameArr))
      new_name == FusedName(nameArr)
      named == [co.st EXCEPT !.loops[p].name = new_name]
      tagged == IF isOuterMost
                THEN [named EXCEPT !.loops[p] = setStageName(@, op.stage)]
                ELSE named
  IN  IF Len(nameArr) < 2
      THEN {Outcome("failure", f,
                    <<Error("Should at least input 2 loops to be fused")>>)}
      ELSE IF s = 0
      THEN {Outcome("failure", f, <<Error("Cannot find Stage")>>)}
      ELSE IF p = 0
      THEN {Outcome("failure", f,
                    <<Error("Cannot find contiguous nested loops")>>)}
      ELSE IF ~co.ok
      THEN {Outcome("failure", f, <<>>)}
      ELSE {Outcome("success",
                    AddHandles(SetStage(f, s, tagged), <<LoopHandle(new_name)>>),
                    <<>>)}

(***************************************************************************)
(* Loop-transformation specification: a function with one stage "s", a     *)
(* perfect nest i, j, k over a statement indexed [i, j, k], to which       *)
(* schedule primitives are applied one after the other.                    *)
(***************************************************************************)
StageOf(n1, n2, n3) ==
  [loops |-> <<ForLoop(1, <<"i">>, n1, "s"), ForLoop(2, <<"j">>, n2, NoStage),
               ForLoop(3, <<"k">>, n3, NoStage)>>,
   defs |-> <<>>,
   body |-> <<Dim(1), Dim(2), Dim(3)>>,
   orig |-> <<n1, n2, n3>>,
   nid |-> 4]
FuncOf(n1, n2, n3) ==
  [stages |-> <<StageOf(n1, n2, n3)>>,
   handles |-> <<StageHandle("s"), LoopHandle(<<"i">>), LoopHandle(<<"j">>),
                 LoopHandle(<<"k">>)>>]

NoOp == [kind |-> "none"]
LoopNames(f) == {f.stages[1].loops[p].name : p \in 1..Len(f.stages[1].loops)}
\* Handles a schedule statement can name: the loops of the stage and one
\* loop that is not in it.
LoopArgs(f) == LoopNames(f) \cup {<<"z">>}
StageArgs == {"s", "t"}
Alive == last.res \in {"none", "success", "failure"}

InitLoop ==
  /\ fn \in {FuncOf(n1, n2, n3) : n1 \in 2..MaxExtent, n2 \in 2..MaxExtent,
                                  n3 \in {2}}
  /\ arr = NoArray
  /\ last = [op |-> NoOp, res |-> "none", diags |-> <<>>]
  /\ steps = 0
  /\ ru = NoRun
  /\ drv = NoDriver

Apply(op, outs) ==
  /\ steps < MaxSteps
  /\ Alive
  /\ \E o \in outs :
       /\ fn' = o.f
       /\ last' = [op |-> op, res |-> o.res, diags |-> o.diags]
  /\ steps' = steps + 1
  /\ UNCHANGED <<arr, ru, drv>>

Split ==
  \E sn \in StageArgs, ln \in LoopArgs(fn), fac \in 1..MaxFactor :
    LET op == [kind |-> "split", stage |-> sn, loop |-> ln, factor |-> fac]
    IN  Apply(op, RunSplitting(fn, op))

Tile ==
  \E sn \in StageArgs, x \in LoopArgs(fn), y \in LoopArgs(fn),
     fx \in 1..MaxFactor, fy \in 1..MaxFactor :
    LET op == [kind |-> "tile", stage |-> sn, x |-> x, y |-> y, xf |-> fx,
               yf |-> fy]
    IN  Apply(op, RunTiling(fn, op))

\* Argument lists: sequences of two or three distinct handles, and the
\* one-handle lists.
ArgLists(f) ==
  LET A == LoopArgs(f)
  IN  {<<a>> : a \in A}
        \cup {t \in A \X A : t[1] # t[2]}
        \cup {t \in A \X A \X A : t[1] # t[2] /\ t[1] # t[3] /\ t[2] # t[3]}

\* The argument lists of reorder: the lists above and lists that name a
\* loop twice.
ReorderArgs(f) ==
  LET A == LoopNames(f)
  IN  ArgLists(f) \cup {<<a, a>> : a \in A}
        \cup {t \in A \X A \X A : t[1] = t[2] /\ t[1] # t[3]}

Reorder ==
  \E sn \in StageArgs, ls \in ReorderArgs(fn) :
    LET op == [kind |-> "reorder", stage |-> sn, loops |-> ls]
    IN  Apply(op, RunReordering(fn, op))

Fuse ==
  \E sn \in StageArgs, ls \in ArgLists(fn) :
    LET op == [kind |-> "fuse", stage |-> sn, loops |-> ls]
    IN  Apply(op, RunFusing(fn, op))

NextLoop == Split \/ Tile \/ Reorder \/ Fuse
SpecLoop == InitLoop /\ [][NextLoop]_vars

Init == InitLoop
Next == NextLoop
Spec == SpecLoop

(***************************************************************************)
(* Arrays.  An array is [shape, layout, acc]: the memref shape, the        *)
(* results of its layout map over the dimensions d1..dr, and its affine    *)
(* loads and stores.  An access is [kind, nops, ndims, idx]: the number of *)
(* index operands, the number of dimensions its map declares, and the      *)
(* results of the map over d1, d2, ...                                     *)
(***************************************************************************)
Identity(r) == [d \in 1..r |-> Dim(d)]
Access(kind, n, idx) == [kind |-> kind, nops |-> n, ndims |-> n, idx |-> idx]
ArrayOutcome(r, a, d) == [res |-> r, a |-> a, diags |-> d]

RECURSIVE DimsOf(_)
DimsOf(e) ==
  CASE e.op = "dim" -> {e.id}
    [] e.op = "cst" -> {}
    [] e.op = "add" -> DimsOf(e.l) \cup DimsOf(e.r)
    [] e.op \in {"mul", "floordiv", "mod"} -> DimsOf(e.l)
\* An access the verifier accepts: as many operands as map dimensions, and
\* no result that names a dimension the map does not declare.
WellFormed(ac) ==
  /\ ac.nops = ac.ndims
  /\ \A k \in 1..Len(ac.idx) : DimsOf(ac.idx[k]) \subseteq 1..ac.ndims

\* A block partition that takes the factor for the number of elements of a
\* block.
BlockFactorElements(N, factor) == factor

\* The elements of one block: ceil(shape[dim] / factor).
BlockFactor(N, factor) == (N + factor - 1) \div factor

\* runPartition(f, partitionOp, array): kind, dim (0: every dimension) and
\* factor (-1: not given) on array a.
RunPartition(a, op) ==
  LET rank == Len(a.shape)
      fresh == Len(a.layout) = rank
      selected(d) == op.dim = 0 \/ d = op.dim
      bank(d) ==
        IF selected(d)
        THEN CASE op.kind = "cyclic" -> Mod(Dim(d), op.factor)
               [] op.kind = "block" ->
                    FloorDiv(Dim(d), BlockFactor(a.shape[d], op.factor))
               [] op.kind = "complete" -> Dim(d)
        ELSE IF fresh THEN Cst(0) ELSE a.layout[d]
      addr(d) ==
        IF selected(d)
        THEN CASE op.kind = "cyclic" -> FloorDiv(Dim(d), op.factor)
               [] op.kind = "block" ->
                    Mod(Dim(d), BlockFactor(a.shape[d], op.factor))
               [] op.kind = "complete" -> Cst(0)
        ELSE IF fresh THEN Dim(d) ELSE a.layout[d]
      warn == IF fresh THEN <<>>
              ELSE <<Warning("Partition on the array partitioned before")>>
  IN  IF op.factor = -1 /\ op.kind # "complete"
      THEN {ArrayOutcome("failure", a,
                         <<Error("Should pass in `factor' for array partition")>>)}
      ELSE {ArrayOutcome("success",
                         [a EXCEPT !.layout = [d \in 1..rank |-> bank(d)]
                                                \o [d \in 1..rank |-> addr(d)]],
                         warn)}

\* prodOldShape[k] (from 0): the product of the last k extents.
ProdOldShape(oldShape, k) ==
  Product(SubSeq(oldShape, Len(oldShape) - k + 1, Len(oldShape)))

RECURSIVE LinearAddr(_, _, _)
\* linear_addr after the loop over i = oldRank - 1 down to i - 1.
LinearAddr(idx, oldShape, i) ==
  IF i > Len(oldShape) THEN Cst(0)
  ELSE Add(Mul(idx[i], ProdOldShape(oldShape, Len(oldShape) - i)),
           IF i = Len(oldShape) THEN Cst(0)
           ELSE LinearAddr(idx, oldShape, i + 1))

RECURSIVE Quotient(_, _, _)
\* linear_addr after n rounds of floordiv by the last extents of newShape.
Quotient(lin, newShape, n) ==
  IF n = 0 THEN lin
  ELSE FloorDiv(Quotient(lin, newShape, n - 1),
                newShape[Len(newShape) - n + 1])

\* memAffineIndices after the reversal: the row-major digits of linear_addr.
MemAffineIndices(lin, newShape) ==
  [d \in 1..Len(newShape) |->
     IF d = 1 THEN Quotient(lin, newShape, Len(newShape) - 1)
     ELSE Mod(Quotient(lin, newShape, Len(newShape) - d), newShape[d])]

\* The access runReshape creates for access ac: the new map declares
\* oldRank dimensions and takes the operands of the old access.
ReshapeAccess(ac, oldShape, newShape) ==
  [kind |-> ac.kind, nops |-> ac.nops, ndims |-> Len(oldShape),
   idx |-> MemAffineIndices(LinearAddr(ac.idx, oldShape, 1), newShape)]

\* runReshape(f, reshapeOp, array) to the shape op.shape.
RunReshape(a, op) ==
  LET new == [a EXCEPT
                !.shape = op.shape,
                !.layout = Identity(Len(op.shape)),
                !.acc = [k \in 1..Len(a.acc) |->
                           ReshapeAccess(a.acc[k], a.shape, op.shape)]]
  IN  IF \A k \in 1..Len(new.acc) : WellFormed(new.acc[k])
      THEN {ArrayOutcome("success", new, <<>>)}
      ELSE {ArrayOutcome("crash", new, <<>>),
            ArrayOutcome("undefined", new, <<>>)}

(***************************************************************************)
(* Array specification: one array with a load and a store, to which        *)
(* partition and reshape are applied.                                      *)
(***************************************************************************)
Shapes ==
  UNION {[1..r -> 1..MaxExtent] : r \in 1..MaxRank}
\* The index maps of the accesses: the identity, and per rank one map with
\* more and one with fewer dimensions than the array has: a[i + r],
\* a[i, 0].
AccessMaps(rank) ==
  {[n |-> rank, idx |-> Identity(rank)]}
    \cup (IF rank = 1 THEN {[n |-> 2, idx |-> <<Add(Dim(1), Dim(2))>>]}
          ELSE {[n |-> rank - 1,
                 idx |-> [d \in 1..rank |->
                            IF d = rank THEN Cst(0) ELSE Dim(d)]]})

\* The layouts an array starts with: none (the identity), or the one that
\* an earlier cyclic partition by 2 of every dimension (dim 0) or of one
\* dimension has left.
Layouts(sh) ==
  LET a == [shape |-> sh, layout |-> Identity(Len(sh)), acc |-> <<>>]
      op(d) == [kind |-> "cyclic", dim |-> d, factor |-> 2]
  IN  {Identity(Len(sh))}
        \cup UNION {{o.a.layout : o \in RunPartition(a, op(d))} :
                      d \in 0..Len(sh)}

InitArray ==
  /\ fn = NoFunc
  /\ \E sh \in Shapes, ml \in AccessMaps(MaxRank) \cup AccessMaps(1),
        ms \in AccessMaps(MaxRank) \cup AccessMaps(1) :
       /\ ml \in AccessMaps(Len(sh)) /\ ms \in AccessMaps(Len(sh))
       /\ \E lay \in Layouts(sh) :
            arr = [shape |-> sh, layout |-> lay,
                   acc |-> <<Access("load", ml.n, ml.idx),
                             Access("store", ms.n, ms.idx)>>]
  /\ last = [op |-> NoOp, res |-> "none", diags |-> <<>>]
  /\ steps = 0
  /\ ru = NoRun
  /\ drv = NoDriver

\* One primitive is applied to the array of a run.
ApplyArray(op, outs) ==
  /\ steps = 0
  /\ \E o \in outs :
       /\ arr' = o.a
       /\ last' = [op |-> op, res |-> o.res, diags |-> o.diags]
  /\ steps' = steps + 1
  /\ UNCHANGED <<fn, ru, drv>>

Partition ==
  \E kind \in {"cyclic", "block", "complete"}, dim \in 0..MaxRank,
     factor \in {-1} \cup 1..MaxFactor :
    LET op == [kind |-> "partition", partition_kind |-> kind, dim |-> dim,
               factor |-> factor]
    IN  ApplyArray(op, RunPartition(arr, [kind |-> kind, dim |-> dim,
                                          factor |-> factor]))

Reshape ==
  \E sh \in Shapes :
    LET op == [kind |-> "reshape", shape |-> sh]
    IN  ApplyArray(op, RunReshape(arr, op))

NextArray == Partition \/ Reshape
SpecArray == InitArray /\ [][NextArray]_vars

(***************************************************************************)
(* Properties of split, tile, fuse and reorder.                            *)
(***************************************************************************)
TheStageOf(f, sn) == f.stages[GetStage(f, sn)]
TheStage(f) == f.stages[GetStage(f, "s")]
IsUnitLoop(l) == l.lb = LFC(0) /\ l.step = 1

\* The loops at depths po and pi of stage t enumerate the pairs (o, i) of a
\* loop of trip count N tiled by f, and the value `val` is f * o + i.
TiledPair(t, po, pi, N, f, val) ==
  LET lo == t.loops[po]
      li == t.loops[pi]
      pairs == {<<o, i>> \in (0..(N - 1)) \X (0..(f - 1)) :
                  o < CeilDiv(N, f) /\ i < Min({f, N - f * o})}
  IN  /\ IsUnitLoop(lo) /\ lo.ub = <<LFC(CeilDiv(N, f))>>
      /\ IsUnitLoop(li)
      /\ \A o \in 0..(CeilDiv(N, f) - 1) :
            UbValue(li, (lo.id :> o), t.defs) = Min({f, N - f * o})
      /\ \A q \in pairs :
            EvalE(Dim(val), (lo.id :> q[1]) @@ (li.id :> q[2]), t.defs)
              = f * q[1] + q[2]
      /\ {f * q[1] + q[2] : q \in pairs} = 0..(N - 1)
      /\ Cardinality(pairs) = N

SplitCase(f, op) ==
  /\ op.kind = "split"
  /\ GetStage(f, op.stage) # 0
  /\ FindLoop(f.stages[GetStage(f, op.stage)], op.loop) # 0
  /\ LET l == f.stages[GetStage(f, op.stage)].loops[
                 FindLoop(f.stages[GetStage(f, op.stage)], op.loop)]
     IN  /\ hasConstantUpperBound(l) /\ IsUnitLoop(l)
         /\ 1 <= op.factor /\ op.factor < l.ub[1].c
SplitHolds(f, g, op, res) ==
  LET s == GetStage(f, op.stage)
      p == FindLoop(f.stages[s], op.loop)
      l == f.stages[s].loops[p]
      t == g.stages[s]
  IN  /\ res = "success"
      /\ Len(t.loops) = Len(f.stages[s].loops) + 1
      /\ \E b \in NormApplies(t, t.loops[p + 1].id) :
            /\ TiledPair(t, p, p + 1, l.ub[1].c, op.factor, b)
            /\ t.body = [d \in 1..Len(t.body) |->
                           SubstE(f.stages[s].body[d], l.id, Dim(b))]
      /\ ExecutesOrigOnce(t)

TileCase(f, op) ==
  /\ op.kind = "tile"
  /\ GetStage(f, op.stage) # 0
  /\ FindContiguousNestedLoops(f.stages[GetStage(f, op.stage)],
                               <<op.x, op.y>>) # 0
  /\ LET st == f.stages[GetStage(f, op.stage)]
         p == FindContiguousNestedLoops(st, <<op.x, op.y>>)
     IN  /\ hasConstantUpperBound(st.loops[p]) /\ IsUnitLoop(st.loops[p])
         /\ hasConstantUpperBound(st.loops[p + 1])
         /\ IsUnitLoop(st.loops[p + 1])
         /\ 1 <= op.xf /\ op.xf < st.loops[p].ub[1].c
         /\ 1 <= op.yf /\ op.yf < st.loops[p + 1].ub[1].c
TileHolds(f, g, op, res) ==
  LET s == GetStage(f, op.stage)
      st == f.stages[s]
      p == FindContiguousNestedLoops(st, <<op.x, op.y>>)
      t == g.stages[s]
  IN  /\ res = "success"
      /\ Len(t.loops) = Len(st.loops) + 2
      /\ \E bx \in NormApplies(t, t.loops[p + 2].id),
            by \in NormApplies(t, t.loops[p + 3].id) :
            /\ TiledPair(t, p, p + 2, st.loops[p].ub[1].c, op.xf, bx)
            /\ TiledPair(t, p + 1, p + 3, st.loops[p + 1].ub[1].c, op.yf, by)
            /\ t.body = [d \in 1..Len(t.body) |->
                           SubstAllE(st.body[d],
                                     <<st.loops[p].id, st.loops[p + 1].id>>,
                                     <<bx, by>>)]
      /\ ExecutesOrigOnce(t)

\* C1: every split(loop, factor) with 1 <= factor < N, and every
\* tile(x, y, fx, fy) with 1 <= fx < Nx and 1 <= fy < Ny, on loops of
\* constant trip count succeeds and leaves outer/inner loops that enumerate
\* the pairs (o, i), o in [0, ceil(N/factor)), i in [0, min(factor,
\* N - factor*o)), with factor*o + i a bijection onto [0, N), the body
\* executed exactly once for every original index.
C1_SplitTileBijection ==
  [][/\ SplitCase(fn, last'.op) => SplitHolds(fn, fn', last'.op, last'.res)
     /\ TileCase(fn, last'.op) => TileHolds(fn, fn', last'.op, last'.res)]_vars

\* The digit of loop i (from 1, outermost) in the row-major tuple of the
\* merged index v over the trip counts us.
RowMajorDigit(v, us, i) ==
  (v \div Product(SubSeq(us, i + 1, Len(us)))) % us[i]

FuseCase(f, op) ==
  /\ op.kind = "fuse"
  /\ Len(op.loops) >= 2
  /\ GetStage(f, op.stage) # 0
  /\ FindContiguousNestedLoops(f.stages[GetStage(f, op.stage)], op.loops) # 0
  /\ LET st == f.stages[GetStage(f, op.stage)]
         p == FindContiguousNestedLoops(st, op.loops)
     IN  \A i \in 0..(Len(op.loops) - 1) :
            hasConstantUpperBound(st.loops[p + i]) /\ IsUnitLoop(st.loops[p + i])
FuseHolds(f, g, op, res) ==
  LET s == GetStage(f, op.stage)
      st == f.stages[s]
      k == Len(op.loops)
      p == FindContiguousNestedLoops(st, op.loops)
      us == [i \in 1..k |-> st.loops[p + i - 1].ub[1].c]
      t == g.stages[s]
      m == t.loops[p]
      \* the iteration of the source nest that an iteration of the fused
      \* nest stands for
      Old(env) == [x \in {st.loops[q].id : q \in 1..Len(st.loops)} |->
                     IF \E i \in 1..k : st.loops[p + i - 1].id = x
                     THEN RowMajorDigit(env[m.id], us,
                            CHOOSE i \in 1..k : st.loops[p + i - 1].id = x)
                     ELSE env[x]]
  IN  /\ res = "success"
      /\ Len(t.loops) = Len(st.loops) - k + 1
      /\ IsUnitLoop(m) /\ m.ub = <<LFC(Product(us))>>
      /\ \A env \in IterPoints(t) :
            BodyIndex(t, env) = BodyIndex(st, Old(env))
      /\ {Old(env) : env \in IterPoints(t)} = IterPoints(st)
      /\ Cardinality(IterPoints(t)) = Cardinality(IterPoints(st))

\* C2: fuse of k >= 2 contiguously nested loops with zero lower bound, unit
\* step and constant upper bounds u1..uk leaves one loop of trip count
\* u1*...*uk, and for every merged index v the induction variables rebuilt
\* by mod and floordiv are the tuple whose row-major linearization is v;
\* every original tuple is produced exactly once.
C2_FuseRowMajor ==
  [][FuseCase(fn, last'.op) => FuseHolds(fn, fn', last'.op, last'.res)]_vars
\* A fuse of three loops of trip counts 3, 4 and 2 has succeeded.
C2_Witness ==
  /\ last.op.kind = "fuse" /\ last.res = "success"
  /\ Len(last.op.loops) = 3
  /\ TheStage(fn).orig = <<3, 4, 2>>
  /\ TheStage(fn).loops[1].ub = <<LFC(24)>>

ReorderCase(f, op) ==
  /\ op.kind = "reorder"
  /\ Len(op.loops) >= 2
  /\ GetStage(f, op.stage) # 0
  /\ LET st == f.stages[GetStage(f, op.stage)]
     IN  /\ PerfectNest(st) >= 2
         /\ \A a \in 1..Len(op.loops) :
               \E d \in 1..PerfectNest(st) : st.loops[d].name = op.loops[a]
         /\ \A a, b \in 1..Len(op.loops) : op.loops[a] = op.loops[b] => a = b
DepthOf(st, n) == CHOOSE d \in 1..Len(st.loops) : st.loops[d].name = n
ReorderHolds(f, g, op, res) ==
  LET s == GetStage(f, op.stage)
      st == f.stages[s]
      t == g.stages[s]
      names(x) == [d \in 1..Len(x.loops) |-> x.loops[d].name]
  IN  /\ res = "success"
      /\ Len(t.loops) = Len(st.loops)
      /\ \A n \in SeqToSet(names(st)) \cup SeqToSet(names(t)) :
            Count(names(t), Len(t.loops), n) = Count(names(st), Len(st.loops), n)
      /\ \A a, b \in 1..Len(op.loops) :
            a < b => DepthOf(t, op.loops[a]) < DepthOf(t, op.loops[b])
      /\ \A d \in 1..Len(st.loops) :
            st.loops[d].name \notin SeqToSet(op.loops)
              => t.loops[d].name = st.loops[d].name

\* C3: reorder on a stage whose maximal perfect nest has at least two loops,
\* with at least two distinct loops of the nest as arguments, keeps the
\* multiset of loop names, puts the listed loops in the order of the
\* arguments (outermost first) and leaves every unlisted loop at its depth.
C3_ReorderOrder ==
  [][ReorderCase(fn, last'.op) => ReorderHolds(fn, fn', last'.op, last'.res)]_vars
\* reorder(k, i) has moved k to the outside of i, j in between.
C3_Witness ==
  /\ last.op.kind = "reorder" /\ last.res = "success"
  /\ last.op.loops = << <<"k">>, <<"i">> >>
  /\ [d \in 1..3 |-> TheStage(fn).loops[d].name] = << <<"k">>, <<"j">>, <<"i">> >>

(***************************************************************************)
(* Properties of partition and reshape.                                    *)
(***************************************************************************)
\* The index tuples inside a shape.
IndexSpace(shape) ==
  {t \in [1..Len(shape) -> 0..(MaxExtent - 1)] :
     \A d \in 1..Len(shape) : t[d] < shape[d]}
EvalAll(exprs, env) == [k \in 1..Len(exprs) |-> EvalE(exprs[k], env, <<>>)]

PartitionCase(a, op) ==
  /\ op.kind = "partition"
  /\ Len(a.layout) = Len(a.shape)
  /\ op.partition_kind # "complete" => op.factor >= 1
PartitionHolds(a, b, op, res) ==
  LET r == Len(a.shape)
      K == op.partition_kind
      f == op.factor
      sel(d) == op.dim = 0 \/ d = op.dim
      want(d, i) ==
        IF ~sel(d) THEN <<0, i>>
        ELSE CASE K = "cyclic" -> <<i % f, i \div f>>
               [] K = "block" -> <<i \div CeilDiv(a.shape[d], f),
                                   i % CeilDiv(a.shape[d], f)>>
               [] K = "complete" -> <<i, 0>>
      banks(d) == {EvalAll(b.layout, t)[d] : t \in IndexSpace(a.shape)}
  IN  /\ res = "success"
      /\ b.shape = a.shape
      /\ Len(b.layout) = 2 * r
      /\ \A t \in IndexSpace(a.shape) : \A d \in 1..r :
            <<EvalAll(b.layout, t)[d], EvalAll(b.layout, t)[r + d]>>
              = want(d, t[d])
      /\ \A d \in 1..r :
            sel(d) =>
              /\ K = "complete" => Cardinality(banks(d)) = a.shape[d]
              /\ K # "complete" => Cardinality(banks(d)) <= f

\* C4: partition of a not-yet-partitioned rank-r array gives a layout map
\* of 2r results, banks first and offsets second; a selected dimension
\* (dim = 0: all, dim = k: dimension k - 1) maps index i to (i mod f,
\* i div f) for cyclic, (i div ceil(N/f), i mod ceil(N/f)) for block and
\* (i, 0) for complete, an unselected one to (0, i); complete uses N banks,
\* cyclic and block at most f.
C4_PartitionLayout ==
  [][PartitionCase(arr, last'.op)
       => PartitionHolds(arr, arr', last'.op, last'.res)]_vars
\* A block partition by 2 of dimension 1 of a 3 x 4 array has been applied.
C4_Witness ==
  /\ last.op.kind = "partition" /\ last.res = "success"
  /\ last.op.partition_kind = "block" /\ last.op.factor = 2 /\ last.op.dim = 1
  /\ arr.shape = <<3, 4>>
  /\ arr.layout = <<FloorDiv(Dim(1), 2), Cst(0), Mod(Dim(1), 2), Dim(2)>>

\* The row-major linearization of index tuple t in a shape.
Linearize(t, shape) ==
  LET RECURSIVE L(_)
      L(d) == IF d = 0 THEN 0 ELSE L(d - 1) * shape[d] + t[d]
  IN  L(Len(shape))
\* The operand tuples of access ac that index inside the shape.
OperandsInside(ac, shape) ==
  {env \in [1..ac.nops -> 0..(MaxExtent - 1)] :
     EvalAll(ac.idx, env) \in IndexSpace(shape)}

ReshapeCase(a, op) ==
  /\ op.kind = "reshape"
  /\ Product(op.shape) = Product(a.shape)
  /\ \A k \in 1..Len(a.acc) : WellFormed(a.acc[k])
ReshapeHolds(a, b, op, res) ==
  /\ res = "success"
  /\ b.shape = op.shape
  /\ Len(b.acc) = Len(a.acc)
  /\ \A k \in 1..Len(a.acc) :
        /\ WellFormed(b.acc[k])
        /\ b.acc[k].kind = a.acc[k].kind
        /\ \A env \in OperandsInside(a.acc[k], a.shape) :
              /\ EvalAll(b.acc[k].idx, env) \in IndexSpace(b.shape)
              /\ Linearize(EvalAll(b.acc[k].idx, env), b.shape)
                   = Linearize(EvalAll(a.acc[k].idx, env), a.shape)

\* C5: reshape to a shape of the same element count rewrites every affine
\* load and store of the array so that, for every old index tuple inside
\* old_shape, the new tuple lies inside new_shape and has the same
\* row-major linearization.
C5_ReshapeLinearization ==
  [][ReshapeCase(arr, last'.op)
       => ReshapeHolds(arr, arr', last'.op, last'.res)]_vars

(***************************************************************************)
(* reuse_at on a one-dimensional stencil.  The stage is one loop `i` whose *)
(* body loads target[i + c] for the offsets c of `loads`, in program       *)
(* order, and stores the computed value at out[i].  `pre` are the          *)
(* operations placed before the guarded computation, `guard` the affine.if *)
(* conditions around the computation, `bufs` the reuse buffers allocated.  *)
(***************************************************************************)
MaxLoads == 3

\* The simplified index expression d0 + c of a load.
LoadExpr(iv, c) == IF c = 0 THEN Dim(iv) ELSE Add(Dim(iv), Cst(c))
MemLoad(mem, e) == [mem |-> mem, idx |-> e]
Move(from, to) == [from |-> from, to |-> to]

RECURSIVE WalkConstants(_)
\* The constants of an expression in the post-order of AffineExpr::walk.
WalkConstants(e) ==
  CASE e.op = "dim" -> <<>>
    [] e.op = "cst" -> <<e.v>>
    [] e.op = "add" -> WalkConstants(e.l) \o WalkConstants(e.r)
    [] OTHER -> WalkConstants(e.l) \o <<e.k>>

\* ExprCompare::findConstantExpr: the last constant met by the walk of the
\* expression, -1 when it has none.
findConstantExpr(e) ==
  LET cs == WalkConstants(e)
  IN  IF cs = <<>> THEN -1 ELSE cs[Len(cs)]

\* ExprCompare::operator(): the strict order of std::set<AffineExpr,
\* ExprCompare>; two expressions neither of which is before the other are
\* the same key.
ExprCompare(e1, e2) == findConstantExpr(e1) < findConstantExpr(e2)

\* std::set::insert: e is dropped when an equivalent key is present, and
\* else placed in the order of ExprCompare.
SetInsert(s, e) ==
  IF \E i \in 1..Len(s) : ~ExprCompare(s[i], e) /\ ~ExprCompare(e, s[i])
  THEN s
  ELSE LET n == Cardinality({i \in 1..Len(s) : ExprCompare(s[i], e)})
       IN  SubSeq(s, 1, n) \o <<e>> \o SubSeq(s, n + 1, Len(s))

RECURSIVE RequestedVars(_, _)
\* requestedVars after the walk has visited the first k loads.
RequestedVars(exprs, k) ==
  IF k = 0 THEN <<>> ELSE SetInsert(RequestedVars(exprs, k - 1), exprs[k])

\* var of the k-th visited load: its expression minus the smallest
\* requested expression at that moment.
VarOf(exprs, k) == LFSub(ToLF(exprs[k]), ToLF(RequestedVars(exprs, k)[1]))

RECURSIVE Distance(_, _)
Distance(exprs, k) ==
  IF k = 0 THEN -1
  ELSE Max({Distance(exprs, k - 1), VarOf(exprs, k).c})

\* insertLoadOp: the loads (as positions of program order) ordered by
\* findConstantExpr, a load going before the first one of a larger value.
InsertLoadOp(all, exprs, k) ==
  LET P == {i \in 1..Len(all) : ExprCompare(exprs[k], exprs[all[i]])}
  IN  IF P = {} THEN Append(all, k)
      ELSE SubSeq(all, 1, Min(P) - 1) \o <<k>> \o SubSeq(all, Min(P), Len(all))

RECURSIVE AllLoadOps(_, _)
AllLoadOps(exprs, k) ==
  IF k = 0 THEN <<>> ELSE InsertLoadOp(AllLoadOps(exprs, k - 1), exprs, k)

\* Step 7: some requested expression plus one is a requested expression.
CanReuse(rv) ==
  \E i, j \in 1..Len(rv) : ToLF(rv[j]) = LFAdd(ToLF(rv[i]), LFC(1))

RECURSIVE AllLoadAffineMaps(_, _)
\* Step 8: the constant index maps () -> (expr - baseVar) of the loads in
\* the order of allLoadOps, each distinct map once.
AllLoadAffineMaps(diffs, k) ==
  IF k = 0 THEN <<>>
  ELSE LET m == AllLoadAffineMaps(diffs, k - 1)
       IN  IF \E i \in 1..Len(m) : m[i] = diffs[k] THEN m
           ELSE Append(m, diffs[k])

\* Step 15 without shift and reduction loops: every buffer slot of a map
\* but the last takes the slot of the next map, the last takes target[iv].
\* ShiftOpsLoadOnly is a step 15 that loads the new element and shifts
\* nothing.
ShiftOpsLoadOnly(maps, iv) ==
  <<Move(MemLoad("target", Dim(iv)), Cst(maps[Len(maps)]))>>
ShiftOps(maps, iv) ==
  [c \in 1..Len(maps) |->
     IF c < Len(maps)
     THEN Move(MemLoad("buf", Cst(maps[c + 1])), Cst(maps[c]))
     ELSE Move(MemLoad("target", Dim(iv)), Cst(maps[c]))]

BadLoop(l) ==
  l.step # 1 \/ ~hasConstantLowerBound(l) \/ l.lb.c # 0
    \/ ~hasConstantUpperBound(l)

\* The IR a failure of steps 7 and 8 leaves, `new` being the stage after
\* the rewriting of steps 9 to 17: had the buffer of step 9 been allocated
\* before the checks, it would stay behind.
AfterAllocation(f, s, new) ==
  SetStage(f, s, [f.stages[s] EXCEPT !.bufs = new.bufs])
BeforeRewriting(f, s, new) == f

\* runReuseAt on a target of rank 1, whose reuse axis is its dimension 0.
\* The spans of step 5 size the buffer along the dimensions before the
\* axis only; a rank-1 target has none.  The loop found by getLoop is at
\* depth p - 1 of the stage.
RunReuseAt(f, op) ==
  LET s == GetStage(f, op.stage)
      st == f.stages[s]
      p == FindLoop(st, op.axis)
      loop == st.loops[p]
      warn == <<Warning("Need to guarantee the loads have orders")>>
      exprs == [k \in 1..Len(st.loads) |-> st.loads[k].idx]
      n == Len(exprs)
      requestedVars == RequestedVars(exprs, n)
      distance == Distance(exprs, n)
      allLoadOps == AllLoadOps(exprs, n)
      baseVar == requestedVars[1]
      diffs == [k \in 1..n |-> LFSub(ToLF(exprs[allLoadOps[k]]), ToLF(baseVar))]
      maps == AllLoadAffineMaps([k \in 1..n |-> diffs[k].c], n)
      buf == [name |-> <<op.stage, "_reuse_", p - 1>>, shape |-> <<distance + 1>>]
      new == [st EXCEPT
                !.bufs = Append(@, buf),
                !.loops[p].ub = <<LFC(st.target[1])>>,
                !.store = LFSub(@, LFC(distance)),
                !.loads = [k \in 1..n |->
                             MemLoad("buf",
                               Cst(LFSub(ToLF(exprs[k]), ToLF(baseVar)).c))],
                !.guard = Append(@, [iv |-> loop.id, cst |-> distance]),
                !.pre = ShiftOps(maps, loop.id) \o @]
  IN  IF s = 0
      THEN {Outcome("failure", f, <<Error("Cannot find Stage")>>)}
      ELSE IF p = 0
      THEN {Outcome("failure", f, <<Error("Cannot find Loop")>>)}
      ELSE IF \E q \in 1..Len(st.loops) : BadLoop(st.loops[q])
      THEN {Outcome("failure", f,
              <<Error("Loop must have constant bounds, constant step, zero lower bound")>>)}
      ELSE IF n = 0 \/ \E k \in 1..n : ~LFIsConst(VarOf(exprs, k))
      THEN {[o EXCEPT !.diags = warn] : o \in Undefined(f)}
      ELSE IF ~CanReuse(requestedVars)
      THEN {Outcome("failure", BeforeRewriting(f, s, new),
              warn \o <<Error("Cannot find reuse pattern on axis")>>)}
      ELSE IF \E k \in 1..n : ~LFIsConst(diffs[k])
      THEN {Outcome("failure", BeforeRewriting(f, s, new),
              warn \o <<Error("Cannot support non-constant stride")>>)}
      ELSE {Outcome("success", SetStage(f, s, new), warn)}

(***************************************************************************)
(* Reuse specification: reuse_at is applied once to a one-loop stage, and  *)
(* the rewritten loop is then executed iteration by iteration.  A buffer   *)
(* slot holds the index of the target element it was loaded from, -1 while *)
(* it has never been written.                                              *)
(***************************************************************************)
ReuseStage(lb, ub, ext, offs) ==
  [loops |-> <<[ForLoop(1, <<"i">>, ub, "s") EXCEPT !.lb = LFC(lb)]>>,
   target |-> <<ext>>,
   loads |-> [k \in 1..Len(offs) |-> MemLoad("target", LoadExpr(1, offs[k]))],
   store |-> LFD(1),
   pre |-> <<>>,
   guard |-> <<>>,
   bufs |-> <<>>]

OffsetSeqs == UNION {[1..n -> 0..(MaxExtent - 1)] : n \in 1..MaxLoads}

InitReuse ==
  /\ \E offs \in OffsetSeqs, ext \in 1..MaxExtent, lb \in 0..1 :
       LET far == Max(SeqToSet(offs))
       IN  /\ far < ext
           /\ fn = [stages |-> <<ReuseStage(lb, ext - far, ext, offs)>>,
                    handles |-> <<StageHandle("s"), LoopHandle(<<"i">>)>>]
           /\ ru = [st |-> "idle", offs |-> offs, iv |-> 0, buf |-> <<>>,
                    trace |-> <<>>, reads |-> <<>>]
  /\ arr = NoArray
  /\ last = [op |-> NoOp, res |-> "none", diags |-> <<>>]
  /\ steps = 0
  /\ drv = NoDriver

ReuseAt ==
  /\ steps = 0
  /\ \E sn \in StageArgs, ax \in {<<"i">>, <<"z">>} :
       LET op == [kind |-> "reuse_at", stage |-> sn, axis |-> ax]
       IN  \E o \in RunReuseAt(fn, op) :
             /\ fn' = o.f
             /\ last' = [op |-> op, res |-> o.res, diags |-> o.diags]
             /\ ru' = IF o.res = "success"
                      THEN [ru EXCEPT
                              !.st = "run",
                              !.buf = [k \in 1..o.f.stages[1].bufs[1].shape[1]
                                         |-> -1]]
                      ELSE ru
  /\ steps' = steps + 1
  /\ UNCHANGED <<arr, drv>>

RECURSIVE RunMoves(_, _, _, _)
\* The operations ms executed in order at iteration iv on the buffer buf;
\* ok is FALSE when one of them is outside the buffer.
RunMoves(ms, buf, iv, trace) ==
  IF ms = <<>> THEN [ok |-> TRUE, buf |-> buf, trace |-> trace]
  ELSE LET m == Head(ms)
           src == EvalE(m.from.idx, (1 :> iv), <<>>)
           dst == m.to.v
           inside == /\ dst + 1 \in DOMAIN buf
                     /\ m.from.mem = "buf" => src + 1 \in DOMAIN buf
           v == IF m.from.mem = "buf" THEN buf[src + 1] ELSE src
       IN  IF ~inside THEN [ok |-> FALSE]
           ELSE RunMoves(Tail(ms), [buf EXCEPT ![dst + 1] = v], iv,
                         Append(trace, <<m.from.mem, src, dst>>))

\* One iteration of the rewritten loop: the operations before the guard,
\* then the computation when the guards hold.  An access outside the
\* buffer is undefined behaviour; a computation on a slot never written
\* goes on with a garbage value.
Iterate ==
  /\ ru.st = "run"
  /\ LET st == fn.stages[1]
         r == RunMoves(st.pre, ru.buf, ru.iv, <<>>)
         fires == \A g \in 1..Len(st.guard) : ru.iv - st.guard[g].cst >= 0
         slots == [k \in 1..Len(st.loads) |-> st.loads[k].idx.v + 1]
     IN  /\ ru.iv < st.loops[1].ub[1].c
         /\ IF ~r.ok \/ (fires /\ \E k \in DOMAIN slots :
                                      slots[k] \notin DOMAIN r.buf)
            THEN ru' \in {[ru EXCEPT !.st = "crash"],
                          [ru EXCEPT !.st = "undefined"]}
            ELSE IF fires /\ \E k \in DOMAIN slots : r.buf[slots[k]] = -1
            THEN ru' = [ru EXCEPT !.st = "undefined"]
            ELSE ru' = [ru EXCEPT
                          !.iv = @ + 1,
                          !.buf = r.buf,
                          !.trace = r.trace,
                          !.reads = IF fires
                                    THEN [k \in DOMAIN slots |-> r.buf[slots[k]]]
                                    ELSE <<>>]
  /\ UNCHANGED <<fn, arr, last, steps, drv>>

NextReuse == ReuseAt \/ Iterate
SpecReuse == InitReuse /\ [][NextReuse]_vars

\* The window of the source program: the offsets of its loads.
WindowD == Max(SeqToSet(ru.offs)) - Min(SeqToSet(ru.offs))
ReuseCase == last.op.kind = "reuse_at" /\ last.res = "success"

\* C6: after a successful reuse_at on loads at constant offsets whose
\* largest difference from the smallest offset is D, the reuse buffer has
\* extent D + 1 along the reuse axis and the computation is under the guard
\* iv - D >= 0 on the induction variable of the reuse loop.
C6_ReuseBufferExtent ==
  ReuseCase =>
    LET st == fn.stages[1]
    IN  /\ Len(st.bufs) = 1
        /\ st.bufs[1].shape = <<WindowD + 1>>
        /\ st.guard = <<[iv |-> st.loops[1].id, cst |-> WindowD]>>

\* C7: after reuse_at on a 1-D stencil of window W = D + 1, every
\* iteration of the reuse loop first moves buf[k + 1] to buf[k] for
\* k = 0..W-2 in ascending order, then loads the target once, into
\* buf[W - 1]; no load of the target remains in the computation.
C7_ReuseShiftThenLoad ==
  ReuseCase =>
    LET st == fn.stages[1]
        W == WindowD + 1
        iv == st.loops[1].id
    IN  /\ st.pre = [k \in 1..W |->
                       IF k < W THEN Move(MemLoad("buf", Cst(k)), Cst(k - 1))
                       ELSE Move(MemLoad("target", Dim(iv)), Cst(W - 1))]
        /\ \A k \in 1..Len(st.loads) : st.loads[k].mem = "buf"
        /\ (ru.st = "run" /\ ru.iv > 0) =>
             ru.trace = [k \in 1..W |->
                           IF k < W THEN <<"buf", k, k - 1>>
                           ELSE <<"target", ru.iv - 1, W - 1>>]

(***************************************************************************)
(* compute_at.  The function has a producer stage that stores into the     *)
(* buffer named after it and a consumer stage that loads from it; a        *)
(* statement of a stage is [op, buf, at, inner]: the operation, the buffer *)
(* it accesses, the depth of the loop whose body holds it and the loops    *)
(* between that body and the statement.  `ifOp` tells that the stage holds *)
(* an affine.if; `allocs` are the buffers allocated in the function.       *)
(***************************************************************************)
FusionResults ==
  {"Success", "FailPrecondition", "FailBlockDependence",
   "FailFusionDependence", "FailComputationSlice", "FailIncorrectSlice"}

\* analyzeDependency(producerFor, consumerFor, dependency): FALSE on a
\* stage with an if operation; deps are the dependences it could return.
AnalyzeDependency(prod, cons, deps) ==
  IF prod.ifOp \/ cons.ifOp
  THEN {[ok |-> FALSE, dependency |-> d] : d \in SUBSET deps}
  ELSE {[ok |-> TRUE, dependency |-> deps]}

\* Step 3: the depth counted by the post-order walks, 1 for the outermost
\* loop, one more than the depth of the nest when no loop has the name.
RequestedDepth(cons, n) ==
  LET cnt_depth == Len(cons.loops)
      p == FindLoop(cons, n)
      requested == IF p = 0 THEN 0 ELSE cnt_depth - p + 1
  IN  cnt_depth - requested + 1

\* Step 5: the store into the producer's buffer and the loads tagged with
\* the producer are erased from the consumer, and the buffer with them
\* when it has no use at the time it is looked at, which is before the
\* store and the loads are erased.
RemoveIntermediate(f, c, producer_name) ==
  LET cons == f.stages[c]
      isStore(k) == cons.stmts[k].op = "store" /\ cons.stmts[k].buf = producer_name
      isLoad(k) == cons.stmts[k].op = "load" /\ cons.stmts[k].buf = producer_name
      S == {k \in 1..Len(cons.stmts) : isStore(k)}
      gone == (IF S = {} THEN {} ELSE {Min(S)})
                \cup {k \in 1..Len(cons.stmts) : isLoad(k)}
      keep == SelectSeq([k \in 1..Len(cons.stmts) |->
                           [st |-> cons.stmts[k], del |-> k \in gone]],
                        LAMBDA x : ~x.del)
      stmts == [k \in 1..Len(keep) |-> keep[k].st]
      used == \E s \in 1..Len(f.stages) :
                \E k \in 1..Len(f.stages[s].stmts) :
                  f.stages[s].stmts[k].buf = producer_name
  IN  [f EXCEPT !.stages[c].stmts = stmts,
                !.allocs = IF S # {} /\ ~used THEN @ \ {producer_name} ELSE @]

\* The function without stage p.
EraseStage(f, p) ==
  [f EXCEPT !.stages = SubSeq(@, 1, p - 1) \o SubSeq(@, p + 1, Len(@))]

\* The statements of stage prod below its loop of depth d, placed in front
\* of the body of the loop of depth q of stage cons.
SpliceInto(cons, prod, d, q) ==
  LET moved == [k \in 1..Len(prod.stmts) |->
                  [prod.stmts[k] EXCEPT
                     !.at = q,
                     !.inner = SubSeq(prod.loops, d + 1, Len(prod.loops))]]
  IN  [cons EXCEPT !.stmts = moved \o @]

\* mlir::canFuseLoops(producerFor, consumerFor, depth, ...): Success only
\* for a depth inside the consumer nest.
CanFuseLoops(cons, depth) ==
  IF depth < 1 \/ depth > Len(cons.loops) THEN {"FailPrecondition"}
  ELSE FusionResults

\* Steps 4 and 5 of runComputeAt on producer stage p and consumer stage c,
\* with the answer `an` of analyzeDependency and the answer `fr` of
\* canFuseLoops.
MergeStages(f, op, p, c, an, fr) ==
  LET prod == f.stages[p]
      cons == f.stages[c]
      cnt_depth == Len(cons.loops)
      requested_depth == RequestedDepth(cons, op.axis)
      analysis == IF an.ok THEN <<>>
                  ELSE <<Error("analyzeDependency Failed")>>
      cAfter == IF p < c THEN c - 1 ELSE c
      fused == EraseStage(
                 SetStage(f, c, SpliceInto(cons, prod, requested_depth,
                                           requested_depth)), p)
      \* the producer loop number cnt_depth - requested_depth of the
      \* post-order walk, innermost first
      first == Len(prod.loops) - (cnt_depth - requested_depth)
      second == IF FindLoop(cons, op.axis) = 0 THEN 1
                ELSE FindLoop(cons, op.axis)
      merged == EraseStage(
                  SetStage(f, c, SpliceInto(cons, prod, first, second)), p)
      warn == analysis \o <<Warning("MLIR loop fusion pass failed")>>
  IN  IF an.dependency # {}
      THEN IF fr = "Success"
           THEN {Outcome("success",
                         RemoveIntermediate(fused, cAfter, op.producer),
                         analysis)}
           ELSE {Outcome("failure", f,
                   analysis \o <<Error("Cannot merge these two loops")>>)}
      ELSE IF first < 1 \/ first > Len(prod.loops)
             \/ requested_depth > Len(prod.loops)
             \/ requested_depth > Len(cons.loops)
      THEN {[o EXCEPT !.diags = warn] : o \in Undefined(f)}
      ELSE {Outcome("success", merged, warn)}

RunComputeAt(f, op) ==
  LET P == {s \in 1..Len(f.stages) :
              f.stages[s].loops[1].attrs["stage_name"] = op.producer}
      Q == {s \in 1..Len(f.stages) :
              f.stages[s].loops[1].attrs["stage_name"] = op.consumer
                /\ f.stages[s].loops[1].attrs["stage_name"] # op.producer}
      p == Max(P)
      c == Max(Q)
  IN  IF P = {} \/ Q = {}
      THEN {Outcome("failure", f,
              <<Error("Cannot find corresponding producer and consumer")>>)}
      ELSE UNION {MergeStages(f, op, p, c, an, fr) :
                    an \in AnalyzeDependency(f.stages[p], f.stages[c], f.deps),
                    fr \in CanFuseLoops(f.stages[c],
                                        RequestedDepth(f.stages[c], op.axis))}

(***************************************************************************)
(* The driver.  A schedule program is the sequence of schedule statements  *)
(* of the function that holds them: the function itself in                 *)
(* single-function mode, the function tagged `top` in multi-stage mode,    *)
(* where the loops of stage s are in the function Stage_s (`fn`) and       *)
(* `top` keeps the handle operations.  A statement names its loops either  *)
(* by create_loop_handle operations (def = 0) or by the results of the     *)
(* earlier statement def.  `sched` are the statements still in the         *)
(* function, `log` one entry for every statement the loop has visited.     *)
(***************************************************************************)
MaxStmts == 2

AllHandles ==
  <<StageHandle("s"), StageHandle("t"), LoopHandle(<<"i">>),
    LoopHandle(<<"j">>), LoopHandle(<<"k">>), LoopHandle(<<"z">>)>>

\* The handle names a split statement defines as its results.
SplitResults(stmt) == <<stmt.loop \o <<".outer">>, stmt.loop \o <<".inner">>>>

\* The statements that can stand after the statements prog.
Statements(prog) ==
  {[kind |-> "split", stage |-> sn, loop |-> ln, factor |-> fac, def |-> 0] :
     sn \in StageArgs, ln \in {<<"i">>, <<"z">>}, fac \in 2..MaxFactor}
    \cup {[kind |-> "tile", stage |-> "s", x |-> <<"i">>, y |-> <<"j">>,
           xf |-> 2, yf |-> 2, def |-> 0]}
    \cup {[kind |-> "reorder", stage |-> "s", loops |-> <<<<"j">>, <<"i">>>>,
           def |-> 0]}
    \cup {[kind |-> "fuse", stage |-> "s", loops |-> ls, def |-> 0] :
            ls \in {<<<<"i">>, <<"j">>>>, <<<<"j">>>>}}
    \cup {[kind |-> "fuse", stage |-> "s", loops |-> SplitResults(prog[d]),
           def |-> d] : d \in {e \in 1..Len(prog) : prog[e].kind = "split"}}
    \cup {[kind |-> "split", stage |-> "s", loop |-> SplitResults(prog[d])[r],
           factor |-> 2, def |-> d] :
            d \in {e \in 1..Len(prog) : prog[e].kind = "split"}, r \in 1..2}
    \cup {[kind |-> "compute_at", stage |-> "s", producer |-> "s",
           consumer |-> "t", axis |-> <<"i">>, def |-> 0]}

RECURSIVE Programs(_)
\* The schedule programs of n statements.
Programs(n) ==
  IF n = 0 THEN {<<>>}
  ELSE UNION {{Append(p, s) : s \in Statements(p)} : p \in Programs(n - 1)}

\* The dispatch of one statement to its primitive on function f.
RunPrimitive(f, stmt) ==
  CASE stmt.kind = "split" -> RunSplitting(f, stmt)
    [] stmt.kind = "tile" -> RunTiling(f, stmt)
    [] stmt.kind = "reorder" -> RunReordering(f, stmt)
    [] stmt.kind = "fuse" -> RunFusing(f, stmt)
    [] stmt.kind = "compute_at" -> RunComputeAt(f, stmt)

\* 1) Get the schedule, of every primitive: the name of a loop handle is
\* read from its defining operation cast to CreateLoopHandleOp.  The
\* results of a statement are replaced by handle operations only when its
\* primitive succeeds; until then the cast is null.
HandlesDefined(d, stmt) ==
  stmt.def = 0 \/ d.log[stmt.def].res = "success"

RunStatement(f, d, stmt) ==
  IF HandlesDefined(d, stmt) THEN RunPrimitive(f, stmt) ELSE Undefined(f)

\* runSchedule: the primitive runs on the function of the statement's
\* stage; without such a function the result is false.
runSchedule(f, d, stmt) ==
  IF stmt.stage \in d.funcMap THEN RunStatement(f, d, stmt)
  ELSE {Outcome("failure", f, <<>>)}

\* The statement kinds whose branch of the multi-stage dispatch calls
\* nothing: the call for compute_at is commented out.
NoBranch == {"compute_at"}

\* The branch of applyLoopTransformation for one statement.
MultiDispatch(f, d, stmt) ==
  IF stmt.kind \in NoBranch THEN {Outcome("none", f, <<>>)}
  ELSE runSchedule(f, d, stmt)

\* Whether the dispatch of stmt calls its primitive.
Invoked(d, stmt) ==
  d.mode = "single" \/ (stmt.kind \notin NoBranch /\ stmt.stage \in d.funcMap)

\* What the driver has done with statement k: whether its primitive was
\* called, the result, the diagnostics emitted, and the function as the
\* primitive left it.
LogEntry(k, o, ran) ==
  [idx |-> k, res |-> o.res, diags |-> o.diags, f |-> o.f, ran |-> ran]

\* One turn of the loop over the operations of the function: the next
\* schedule statement is dispatched.  In single-function mode a failed
\* primitive ends the driver; in multi-stage mode the result of runSchedule
\* is dropped.
Dispatch ==
  /\ drv.mode \in {"single", "multi"}
  /\ drv.status = "running"
  /\ drv.pc <= Len(drv.prog)
  /\ LET stmt == drv.prog[drv.pc]
         outs == IF drv.mode = "single" THEN RunStatement(fn, drv, stmt)
                 ELSE MultiDispatch(fn, drv, stmt)
     IN  \E o \in outs :
           /\ fn' = o.f
           /\ last' = [op |-> stmt, res |-> o.res, diags |-> o.diags]
           /\ drv' = [drv EXCEPT
                        !.log = Append(@, LogEntry(drv.pc, o, Invoked(drv, stmt))),
                        !.status =
                          IF o.res \in {"crash", "undefined"} THEN o.res
                          ELSE IF o.res = "failure" /\ drv.mode = "single"
                          THEN "failed"
                          ELSE @,
                        !.pc = IF o.res = "success"
                                  \/ (o.res \in {"failure", "none"}
                                        /\ drv.mode = "multi")
                               THEN @ + 1 ELSE @,
                        !.opToRemove =
                          IF o.res = "success"
                             \/ (o.res \in {"failure", "none"}
                                   /\ drv.mode = "multi")
                          THEN Append(@, drv.pc) ELSE @]
  /\ UNCHANGED <<arr, steps, ru>>

\* A driver that also cleans up when a statement has failed.
eraseScheduleOpOnAbort ==
  /\ drv.mode \in {"single", "multi"}
  /\ \/ drv.status = "running" /\ drv.pc > Len(drv.prog)
     \/ drv.status = "failed" /\ drv.sched # {}
  /\ drv' = [drv EXCEPT
               !.sched = {},
               !.top = <<>>,
               !.status = IF @ = "failed" THEN @ ELSE "done"]
  /\ fn' = IF drv.mode = "single" THEN [fn EXCEPT !.handles = <<>>] ELSE fn
  /\ UNCHANGED <<arr, last, steps, ru>>

\* eraseScheduleOp(f, opToRemove) after the last statement: the collected
\* statements and every handle operation of f are erased, f being the
\* function that holds the schedule.
eraseScheduleOp ==
  /\ drv.mode \in {"single", "multi"}
  /\ drv.status = "running"
  /\ drv.pc > Len(drv.prog)
  /\ drv' = [drv EXCEPT
               !.sched = {k \in @ : k \notin SeqToSet(drv.opToRemove)},
               !.top = <<>>,
               !.status = "done"]
  /\ fn' = IF drv.mode = "single" THEN [fn EXCEPT !.handles = <<>>] ELSE fn
  /\ UNCHANGED <<arr, last, steps, ru>>

InitDriver ==
  /\ \E mode \in {"single", "multi"},
        n1 \in (3..MaxExtent) \cup {2 * MaxFactor}, n \in 1..MaxStmts :
       \E prog \in Programs(n) :
         /\ fn = [FuncOf(n1, 2, 2) EXCEPT
                    !.handles = IF mode = "single" THEN AllHandles ELSE <<>>]
         /\ drv = [mode |-> mode, prog |-> prog, pc |-> 1,
                   sched |-> 1..Len(prog), opToRemove |-> <<>>,
                   top |-> IF mode = "single" THEN <<>> ELSE AllHandles,
                   funcMap |-> IF mode = "single" THEN {} ELSE {"top", "s"},
                   log |-> <<>>, status |-> "running"]
  /\ arr = NoArray
  /\ last = [op |-> NoOp, res |-> "none", diags |-> <<>>]
  /\ steps = 0
  /\ ru = NoRun

NextDriver == Dispatch \/ eraseScheduleOp
SpecDriver == InitDriver /\ [][NextDriver]_vars

\* C8: in both modes the statements are dispatched in program order, and
\* once the primitive of a statement has failed no later statement of the
\* program is dispatched.
C8_AbortOnFailure ==
  drv.mode \in {"single", "multi"} =>
    /\ \A k \in 1..Len(drv.log) : drv.log[k].idx = k
    /\ \A k \in 1..(Len(drv.log) - 1) : drv.log[k].res \in {"success", "none"}

\* C9: when the driver is done with a program all of whose statements
\* succeeded, no schedule statement and no handle operation is left in any
\* function, the handles created by split, tile and fuse included.
C9_HandlesErased ==
  (/\ drv.mode \in {"single", "multi"}
   /\ drv.status = "done"
   /\ \A k \in 1..Len(drv.log) : drv.log[k].res = "success") =>
    /\ drv.sched = {}
    /\ drv.top = <<>>
    /\ fn.handles = <<>>

\* C10: every failure of a primitive or of the driver's lookup of the
\* function of a stage comes with at least one error diagnostic.
C10_FailureHasDiagnostic ==
  drv.mode \in {"single", "multi"} =>
    \A k \in 1..Len(drv.log) :
      drv.log[k].res = "failure" =>
        \E i \in 1..Len(drv.log[k].diags) : drv.log[k].diags[i].sev = "error"

\* C11: when a schedule program aborts on a failing statement, the function
\* is as the last successful statement left it (nothing is rolled back),
\* and every schedule statement and every handle operation of the program
\* is still in place.
C11_NoRollbackNoErase ==
  (drv.mode \in {"single", "multi"} /\ drv.status = "failed") =>
    LET n == Len(drv.log)
    IN  /\ n > 1 => fn = drv.log[n - 1].f
        /\ drv.sched = 1..Len(drv.prog)
        /\ \A h \in 1..Len(AllHandles) :
             \E g \in 1..Len(fn.handles) :
               /\ fn.handles[g].kind = AllHandles[h].kind
               /\ fn.handles[g].name = AllHandles[h].name

\* A program aborts on its second statement after a first one that created
\* loops and handles.
C11_Witness ==
  /\ drv.mode \in {"single", "multi"}
  /\ drv.status = "failed"
  /\ Len(drv.log) = 2
  /\ drv.log[1].res = "success"
  /\ Len(fn.handles) > Len(AllHandles)
  /\ Len(fn.stages[1].loops) > 3

HasError(diags) == \E i \in 1..Len(diags) : diags[i].sev = "error"
LoopAt(f, sn, n) ==
  f.stages[GetStage(f, sn)].loops[FindLoop(f.stages[GetStage(f, sn)], n)]
LoopMissing(f, sn, n) ==
  GetStage(f, sn) = 0 \/ FindLoop(f.stages[GetStage(f, sn)], n) = 0
\* factor >= the constant upper bound of the loop n of stage sn.
FactorTooLarge(f, sn, n, factor) ==
  /\ ~LoopMissing(f, sn, n)
  /\ hasConstantUpperBound(LoopAt(f, sn, n))
  /\ factor >= LoopAt(f, sn, n).ub[1].c
FactorAtBound(f, sn, n, factor, k) ==
  /\ ~LoopMissing(f, sn, n)
  /\ hasConstantUpperBound(LoopAt(f, sn, n)) /\ IsUnitLoop(LoopAt(f, sn, n))
  /\ factor = LoopAt(f, sn, n).ub[1].c - k

\* The statement op is one that the claim says is rejected.
Rejected(f, op) ==
  \/ /\ op.kind = "split"
     /\ \/ LoopMissing(f, op.stage, op.loop)
        \/ FactorTooLarge(f, op.stage, op.loop, op.factor)
  \/ /\ op.kind = "tile"
     /\ \/ LoopMissing(f, op.stage, op.x)
        \/ LoopMissing(f, op.stage, op.y)
        \/ /\ FindContiguousNestedLoops(TheStageOf(f, op.stage),
                                        <<op.x, op.y>>) # 0
           /\ \/ FactorTooLarge(f, op.stage, op.x, op.xf)
              \/ FactorTooLarge(f, op.stage, op.y, op.yf)

\* The statement op has a factor of bound - 1 and nothing to reject.
AtBoundMinusOne(f, op) ==
  \/ /\ op.kind = "split"
     /\ FactorAtBound(f, op.stage, op.loop, op.factor, 1)
  \/ /\ TileCase(f, op)
     /\ \/ FactorAtBound(f, op.stage, op.x, op.xf, 1)
        \/ FactorAtBound(f, op.stage, op.y, op.yf, 1)

\* C12: split and tile fail with an error diagnostic and leave every loop
\* and every handle as it was when the stage or the loop is not found or a
\* factor is >= the constant upper bound of its loop (factor = bound
\* included); a factor of bound - 1 is accepted.
C12_SplitTileRejects ==
  [][(steps' = steps + 1 /\ last'.op.kind \in {"split", "tile"}) =>
       /\ Rejected(fn, last'.op) =>
            /\ last'.res = "failure"
            /\ HasError(last'.diags)
            /\ fn' = fn
       /\ AtBoundMinusOne(fn, last'.op) => last'.res = "success"]_vars

(***************************************************************************)
(* The attribute primitives.  An optional operand that is absent is -1.    *)
(***************************************************************************)
Absent == -1

\* setIntAttr on the first loop of the walk that carries the name; without
\* one the primitive fails.
AttachAttr(f, op, a, v) ==
  LET s == GetStage(f, op.stage)
      st == f.stages[s]
      p == FindLoop(st, op.loop)
  IN  IF s = 0
      THEN {Outcome("failure", f, <<Error("Cannot find Stage")>>)}
      ELSE IF p = 0
      THEN {Outcome("failure", f, <<Error("Cannot find Loop")>>)}
      ELSE {Outcome("success",
                    SetStage(f, s, [st EXCEPT !.loops[p] = setAttr(@, a, v)]),
                    <<>>)}

UnrollFactor(factor) == IF factor = Absent THEN 0 ELSE factor
PipelineIIZero(ii) == IF ii = Absent THEN 0 ELSE ii
PipelineII(ii) == IF ii = Absent THEN 1 ELSE ii

RunUnrolling(f, op) == AttachAttr(f, op, "unroll", UnrollFactor(op.factor))
RunParallel(f, op) == AttachAttr(f, op, "parallel", 1)
RunPipelining(f, op) == AttachAttr(f, op, "pipeline_ii", PipelineII(op.ii))
RunThreadBind(f, op) == AttachAttr(f, op, "thread_axis", op.dim)

(***************************************************************************)
(* Attribute specification: the attribute primitives applied to the nest   *)
(* i, j, k or to the nest left by a split of i.                            *)
(***************************************************************************)
InitAttr ==
  /\ \E n1 \in 2..MaxExtent, n2 \in 2..MaxExtent :
       LET f == FuncOf(n1, n2, 2)
           sp == [kind |-> "split", stage |-> "s", loop |-> <<"i">>,
                  factor |-> 2]
       IN  fn \in {f} \cup {o.f : o \in {q \in RunSplitting(f, sp) :
                                           q.res = "success"}}
  /\ arr = NoArray
  /\ last = [op |-> NoOp, res |-> "none", diags |-> <<>>]
  /\ steps = 0
  /\ ru = NoRun
  /\ drv = NoDriver

Unroll ==
  \E sn \in StageArgs, ln \in LoopArgs(fn), fac \in {Absent} \cup 0..MaxFactor :
    LET op == [kind |-> "unroll", stage |-> sn, loop |-> ln, factor |-> fac]
    IN  Apply(op, RunUnrolling(fn, op))
Parallel ==
  \E sn \in StageArgs, ln \in LoopArgs(fn) :
    LET op == [kind |-> "parallel", stage |-> sn, loop |-> ln]
    IN  Apply(op, RunParallel(fn, op))
Pipeline ==
  \E sn \in StageArgs, ln \in LoopArgs(fn), ii \in {Absent} \cup 1..MaxFactor :
    LET op == [kind |-> "pipeline", stage |-> sn, loop |-> ln, ii |-> ii]
    IN  Apply(op, RunPipelining(fn, op))
ThreadBind ==
  \E sn \in StageArgs, ln \in LoopArgs(fn), dim \in 0..MaxFactor :
    LET op == [kind |-> "thread_bind", stage |-> sn, loop |-> ln, dim |-> dim]
    IN  Apply(op, RunThreadBind(fn, op))

NextAttr == Unroll \/ Parallel \/ Pipeline \/ ThreadBind
SpecAttr == InitAttr /\ [][NextAttr]_vars

\* The attribute and the value the statement op is to attach.
AttrOf(op) ==
  CASE op.kind = "unroll" ->
         <<"unroll", IF op.factor = Absent THEN 0 ELSE op.factor>>
    [] op.kind = "parallel" -> <<"parallel", 1>>
    [] op.kind = "pipeline" ->
         <<"pipeline_ii", IF op.ii = Absent THEN 1 ELSE op.ii>>
    [] op.kind = "thread_bind" -> <<"thread_axis", op.dim>>
AttrKinds == {"unroll", "parallel", "pipeline", "thread_bind"}

\* C13: unroll, parallel, pipeline and thread-bind attach their one
\* attribute (unroll = factor, 0 when omitted; parallel = 1; pipeline_ii =
\* the value, 1 when omitted; thread_axis = dim) to the loop of the
\* requested name in the requested stage and change nothing else; when the
\* stage or the loop is not found they fail with an error and attach
\* nothing.
C13_AttributeOnly ==
  [][(steps' = steps + 1 /\ last'.op.kind \in AttrKinds) =>
       LET op == last'.op
           s == GetStage(fn, op.stage)
           p == FindLoop(fn.stages[s], op.loop)
           a == AttrOf(op)
       IN  IF LoopMissing(fn, op.stage, op.loop)
           THEN last'.res = "failure" /\ HasError(last'.diags) /\ fn' = fn
           ELSE /\ last'.res = "success"
                /\ \A q \in 1..Len(fn.stages[s].loops) :
                     getLoopName(fn.stages[s].loops[q]) = op.loop => q = p
                /\ fn' = [fn EXCEPT !.stages[s].loops[p].attrs =
                            [k \in DOMAIN @ \cup {a[1]} |->
                               IF k = a[1] THEN a[2] ELSE @[k]]]]_vars

\* pipeline without an initiation interval has tagged the intra-tile loop
\* of a split nest.
C13_Witness ==
  /\ last.op.kind = "pipeline" /\ last.op.ii = Absent
  /\ last.op.loop = <<"i", ".inner">>
  /\ last.res = "success"
  /\ \E p \in 1..Len(fn.stages[1].loops) :
       /\ getLoopName(fn.stages[1].loops[p]) = <<"i", ".inner">>
       /\ hasAttr(fn.stages[1].loops[p], "pipeline_ii")
       /\ fn.stages[1].loops[p].attrs["pipeline_ii"] = 1

(***************************************************************************)
(* compute_at specification: one compute_at statement on a function with  *)
(* the producer stage "p" (loops i, j) and the consumer stage "c" (loops   *)
(* x, y), and with or without a later stage "r" that reads the producer's  *)
(* array.                                                                  *)
(***************************************************************************)
Nest(ids, names, stage) ==
  [k \in 1..Len(ids) |->
     ForLoop(ids[k], names[k], 2, IF k = 1 THEN stage ELSE NoStage)]
Stmt(o, b, at) == [op |-> o, buf |-> b, at |-> at, inner |-> <<>>]

InitComputeAt ==
  /\ \E m \in 1..2, n \in 1..2, ifP \in BOOLEAN, ifC \in BOOLEAN,
        deps \in SUBSET {"RAW", "WAW"}, outside \in BOOLEAN :
       fn = [stages |->
               <<[loops |-> Nest(SubSeq(<<1, 2>>, 1, m),
                                 SubSeq(<<<<"i">>, <<"j">>>>, 1, m), "p"),
                  stmts |-> <<Stmt("store", "p", m)>>,
                  ifOp |-> ifP],
                 [loops |-> Nest(SubSeq(<<11, 12>>, 1, n),
                                 SubSeq(<<<<"x">>, <<"y">>>>, 1, n), "c"),
                  stmts |-> (IF "RAW" \in deps THEN <<Stmt("load", "p", n)>>
                             ELSE <<>>)
                              \o (IF "WAW" \in deps
                                  THEN <<Stmt("store", "p", n)>> ELSE <<>>)
                              \o <<Stmt("store", "c", n)>>,
                  ifOp |-> ifC]>>
                 \o (IF outside
                     THEN <<[loops |-> Nest(<<21>>, <<<<"u">>>>, "r"),
                             stmts |-> <<Stmt("load", "p", 1),
                                         Stmt("store", "r", 1)>>,
                             ifOp |-> FALSE]>>
                     ELSE <<>>),
             handles |-> <<StageHandle("p"), StageHandle("c")>>,
             allocs |-> {"p", "c"},
             deps |-> deps]
  /\ arr = NoArray
  /\ last = [op |-> NoOp, res |-> "none", diags |-> <<>>]
  /\ steps = 0
  /\ ru = NoRun
  /\ drv = NoDriver

ComputeAt ==
  \E pn \in {"p", "q"}, cn \in {"c", "p"},
     ax \in {<<"x">>, <<"y">>, <<"z">>} :
    LET op == [kind |-> "compute_at", producer |-> pn, consumer |-> cn,
               axis |-> ax]
    IN  Apply(op, RunComputeAt(fn, op))

NextComputeAt == ComputeAt
SpecComputeAt == InitComputeAt /\ [][NextComputeAt]_vars

\* C15: when the dependence analysis of compute_at fails, compute_at
\* reports the error and returns failure, and no statement is spliced, no
\* loop fused and the producer stage not erased.
C15_AnalysisFailureAborts ==
  [][(steps' = steps + 1 /\ last'.op.kind = "compute_at"
        /\ \E i \in 1..Len(last'.diags) :
             last'.diags[i] = Error("analyzeDependency Failed")) =>
       /\ last'.res = "failure"
       /\ fn' = fn]_vars

\* C14: in both driver modes every recognized schedule statement is
\* dispatched to its primitive before it is collected for removal: no
\* statement is collected, and so erased, without its primitive having
\* been called on it.
C14_DispatchedBeforeCollected ==
  drv.mode \in {"single", "multi"} =>
    \A k \in SeqToSet(drv.opToRemove) : drv.log[k].ran

(***************************************************************************)
(* Programs of several functions.  A module is [mode, order, holder,       *)
(* funcMap, funcs, allocs, calls]: the functions in module order, the      *)
(* function that holds the schedule, the allocations and the calls of      *)
(* that function, and per function the types of its block arguments        *)
(* (argTypes) and of its declared signature (sig).  A value of the holder  *)
(* is one of its arguments or one of its allocations.  A type is           *)
(* [shape, layout, acc, space], space being the depth of the stream tag or *)
(* 0.                                                                      *)
(***************************************************************************)
Arg(k) == [kind |-> "arg", idx |-> k]
Alloc(k) == [kind |-> "alloc", id |-> k]
MemRefType(sh, lay, sp) ==
  [shape |-> sh, layout |-> lay, acc |-> <<>>, space |-> sp]

TypeOf(M, v) ==
  IF v.kind = "arg" THEN M.funcs[M.holder].argTypes[v.idx]
  ELSE M.allocs[v.id]

\* Value::setType
SetType(M, v, t) ==
  IF v.kind = "arg" THEN [M EXCEPT !.funcs[M.holder].argTypes[v.idx] = t]
  ELSE [M EXCEPT !.allocs[v.id] = t]

\* f.setType(getFunctionType(f.front().getArgumentTypes(), resultTypes))
UpdateSignature(M, f) == [M EXCEPT !.funcs[f].sig = M.funcs[f].argTypes]

\* findArray(f, target, array): a value that has a defining operation is
\* found in every function, a block argument in the function it belongs to.
findArray(M, f, v) == v.kind = "alloc" \/ f = M.holder

\* The function the driver hands to the primitive together with the array:
\* the holder itself in single-function mode, the first function of the
\* module for which findArray holds in multi-stage mode.
FuncFor(M, v) ==
  IF M.mode = "single" THEN M.holder
  ELSE M.order[Min({k \in 1..Len(M.order) : findArray(M, M.order[k], v)})]

\* runLayout: the shape permuted by the layout map, a new type of that
\* shape with the default layout and memory space.
RunLayout(a, op) ==
  {ArrayOutcome("success",
                MemRefType([k \in 1..Len(op.layout) |-> a.shape[op.layout[k]]],
                           Identity(Len(op.layout)), 0),
                <<>>)}

\* The type change of partition, reshape or layout on value v, and the
\* update of the signature of the function the driver chose.
ChangeType(M, v, outs) ==
  {Outcome(o.res,
           IF o.res = "success"
           THEN UpdateSignature(SetType(M, v, o.a), FuncFor(M, v))
           ELSE M,
           o.diags) : o \in outs}

\* fifo_depth: the product of the extents when no depth is given.
FifoDepth(shape, fifo_depth) ==
  IF fifo_depth = -1 THEN Product(shape) ELSE fifo_depth

\* The first operand position of call c that holds value v.
FirstOperand(c, v) ==
  Min({k \in 1..Len(c.operands) : c.operands[k] = v})

RECURSIVE SetStageTypes(_, _, _, _)
\* The loop over the users of the array: in the callee of each call that
\* passes it, the type of the first parameter that receives it and the
\* signature are set.
SetStageTypes(M, v, t, k) ==
  IF k > Len(M.calls) THEN M
  ELSE LET c == M.calls[k]
       IN  IF v \in SeqToSet(c.operands)
           THEN SetStageTypes(
                  [M EXCEPT
                     !.funcs[c.callee].argTypes[FirstOperand(c, v)] = t,
                     !.funcs[c.callee].sig =
                        [M.funcs[c.callee].argTypes EXCEPT
                           ![FirstOperand(c, v)] = t]],
                  v, t, k + 1)
           ELSE SetStageTypes(M, v, t, k + 1)

\* runInterKernelDataPlacement (multi-stage mode) and
\* runInterKernelDataPlacementSingleFunction on value v.  The context of
\* the new type is read from the defining operation of the array, which a
\* block argument does not have.
RunInterKernelDataPlacement(M, v, fifo_depth) ==
  LET old == TypeOf(M, v)
      newType == [old EXCEPT !.space = FifoDepth(old.shape, fifo_depth)]
      top == SetType(M, v, newType)
  IN  IF v.kind = "arg" THEN Undefined(M)
      ELSE IF M.mode = "single" THEN {Outcome("success", top, <<>>)}
      ELSE IF \E k \in 1..Len(M.calls) :
                 /\ v \in SeqToSet(M.calls[k].operands)
                 /\ M.calls[k].callee \notin M.funcMap
      THEN Undefined(M)
      ELSE {Outcome("success", SetStageTypes(top, v, newType, 1), <<>>)}

(***************************************************************************)
(* Module specification: the holder with one argument, one allocation and  *)
(* one call of the stage function, to which one array primitive is         *)
(* applied.                                                                *)
(***************************************************************************)
Values == {Arg(1), Alloc(1)}
LayoutMaps(r) ==
  {p \in [1..r -> 1..r] : \A i, j \in 1..r : p[i] = p[j] => i = j}

InitModule ==
  /\ \E mode \in {"single", "multi"}, sh \in Shapes,
        order \in {<<"top", "Stage_s">>, <<"Stage_s", "top">>},
        n \in 1..2 :
       \E operands \in [1..n -> Values] :
         LET t == MemRefType(sh, Identity(Len(sh)), 0)
         IN  fn = [mode |-> mode, order |-> order, holder |-> "top",
                   funcMap |-> IF mode = "multi" THEN {"top", "Stage_s"}
                               ELSE {},
                   funcs |-> [f \in {"top", "Stage_s"} |->
                                IF f = "top"
                                THEN [argTypes |-> <<t>>, sig |-> <<t>>]
                                ELSE [argTypes |-> [k \in 1..n |-> t],
                                      sig |-> [k \in 1..n |-> t]]],
                   allocs |-> <<t>>,
                   calls |-> <<[callee |-> "Stage_s", operands |-> operands]>>]
  /\ arr = NoArray
  /\ last = [op |-> NoOp, res |-> "none", diags |-> <<>>]
  /\ steps = 0
  /\ ru = NoRun
  /\ drv = NoDriver

PartitionArray ==
  \E v \in Values, kind \in {"cyclic", "block", "complete"},
     dim \in 0..1, factor \in {-1, 2} :
    LET op == [kind |-> "partition", target |-> v, partition_kind |-> kind,
               dim |-> dim, factor |-> factor]
    IN  Apply(op, ChangeType(fn, v,
                    RunPartition(TypeOf(fn, v),
                                 [kind |-> kind, dim |-> dim,
                                  factor |-> factor])))

ReshapeArray ==
  \E v \in Values, sh \in Shapes :
    LET op == [kind |-> "reshape", target |-> v, shape |-> sh]
    IN  /\ Product(sh) = Product(TypeOf(fn, v).shape)
        /\ Apply(op, ChangeType(fn, v, RunReshape(TypeOf(fn, v), op)))

\* The multi-stage dispatch has no branch for a layout statement.
LayoutArray ==
  \E v \in Values :
    \E perm \in LayoutMaps(Len(TypeOf(fn, v).shape)) :
      LET op == [kind |-> "layout", target |-> v, layout |-> perm]
      IN  Apply(op, IF fn.mode = "single"
                    THEN ChangeType(fn, v, RunLayout(TypeOf(fn, v), op))
                    ELSE {Outcome("none", fn, <<>>)})

StreamArray ==
  \E v \in Values, depth \in {-1, 2} :
    LET op == [kind |-> "inter_kernel_to", target |-> v,
               fifo_depth |-> depth]
    IN  Apply(op, RunInterKernelDataPlacement(fn, v, depth))

NextModule == PartitionArray \/ ReshapeArray \/ LayoutArray \/ StreamArray
SpecModule == InitModule /\ [][NextModule]_vars

TypeChanges == {"partition", "reshape", "layout", "inter_kernel_to"}

\* Every call passes values of the types of the callee's parameters, which
\* are the types of the callee's signature.
CallsAgree(M) ==
  \A c \in 1..Len(M.calls) :
    \A k \in 1..Len(M.calls[c].operands) :
      /\ M.funcs[M.calls[c].callee].argTypes[k]
           = TypeOf(M, M.calls[c].operands[k])
      /\ M.funcs[M.calls[c].callee].sig[k]
           = TypeOf(M, M.calls[c].operands[k])

SignaturesAgree(M) ==
  \A f \in DOMAIN M.funcs : M.funcs[f].sig = M.funcs[f].argTypes

\* C16: after a successful array type change (partition, reshape, layout,
\* stream tagging) in a program of several functions, at every call the
\* callee's parameter type and signature are the new type of the array
\* passed, every function's declared signature equals its argument types,
\* and a stream tag without an explicit depth has the product of all shape
\* extents for its depth.
C16_TypesPropagated ==
  (last.op.kind \in TypeChanges /\ last.res = "success") =>
    /\ CallsAgree(fn)
    /\ SignaturesAgree(fn)
    /\ (last.op.kind = "inter_kernel_to" /\ last.op.fifo_depth = -1) =>
         TypeOf(fn, last.op.target).space
           = Product(TypeOf(fn, last.op.target).shape)

(***************************************************************************)
(* Outline.  The caller is [args, allocs, stages, calls, outlined]: the    *)
(* arrays that are its block arguments, the arrays it allocates, its       *)
(* stages [name, acc] with acc the affine loads and stores [op, mem] in    *)
(* program order, its calls and the functions outlined from it.  A call    *)
(* is [callee, operands, at], `at` being the number of stages of the       *)
(* caller in front of it.  An outlined function is [name, params, allocs,  *)
(* stages].                                                                *)
(***************************************************************************)
MaxAcc == 2

Targets(st, kind) ==
  LET sel == SelectSeq(st.acc, LAMBDA a : a.op = kind)
  IN  [k \in 1..Len(sel) |-> sel[k].mem]

RECURSIVE getInputMemRefs(_, _, _)
\* getInputMemRefs: every loaded array not yet in allMemrefs is appended.
getInputMemRefs(targets, k, allMemrefs) ==
  IF k > Len(targets) THEN allMemrefs
  ELSE getInputMemRefs(targets, k + 1,
         IF targets[k] \in SeqToSet(allMemrefs) THEN allMemrefs
         ELSE Append(allMemrefs, targets[k]))

RECURSIVE WalkStores(_, _, _, _)
\* The walk of getOutputMemRefs over the stores of one stage; w is
\* [all, rm, mv]: allMemrefs, memrefToRemove and allocToMove.
WalkStores(f, targets, k, w) ==
  IF k > Len(targets) THEN w
  ELSE LET target == targets[k]
       IN  WalkStores(f, targets, k + 1,
             IF target \notin SeqToSet(w.all)
             THEN [w EXCEPT !.all = Append(@, target)]
             ELSE IF Len(w.all) = 1 THEN w
             ELSE IF target \notin f.args
             THEN [w EXCEPT !.rm = @ \cup {target}, !.mv = @ \cup {target}]
             ELSE w)

\* getOutputMemRefs: after the walk the arrays of memrefToRemove are erased
\* from allMemrefs.
getOutputMemRefs(f, st, w) ==
  LET x == WalkStores(f, Targets(st, "store"), 1,
                      [all |-> w.all, rm |-> {}, mv |-> w.mv])
  IN  [all |-> SelectSeq(x.all, LAMBDA t : t \notin x.rm), mv |-> x.mv]

RECURSIVE AllInputs(_, _, _)
AllInputs(sts, k, allMemrefs) ==
  IF k > Len(sts) THEN allMemrefs
  ELSE AllInputs(sts, k + 1,
                 getInputMemRefs(Targets(sts[k], "load"), 1, allMemrefs))

RECURSIVE AllOutputs(_, _, _, _)
AllOutputs(f, sts, k, w) ==
  IF k > Len(sts) THEN w
  ELSE AllOutputs(f, sts, k + 1, getOutputMemRefs(f, sts[k], w))

StageNamed(f, n) ==
  f.stages[CHOOSE k \in 1..Len(f.stages) : f.stages[k].name = n]

\* "Stage" followed by "_" and the name of every stage.
FuncName(names) == <<"Stage">> \o names

\* runOutline(mod, f, outlineOp) for the stage names op.stages.
RunOutline(f, op) ==
  LET missing == {k \in 1..Len(op.stages) :
                    \A j \in 1..Len(f.stages) : f.stages[j].name # op.stages[k]}
      rootForOps == [k \in 1..Len(op.stages) |-> StageNamed(f, op.stages[k])]
      w == AllOutputs(f, rootForOps, 1,
                      [all |-> AllInputs(rootForOps, 1, <<>>), mv |-> {}])
      func == [name |-> FuncName(op.stages), params |-> w.all,
               allocs |-> w.mv, stages |-> rootForOps]
      \* the call is created in front of the stage of the last argument
      anchor == CHOOSE k \in 1..Len(f.stages) :
                  f.stages[k].name = op.stages[Len(op.stages)]
      at == Cardinality({k \in 1..(anchor - 1) :
                           f.stages[k].name \notin SeqToSet(op.stages)})
  IN  IF missing # {}
      THEN {Outcome("failure", f, <<Error("Cannot find Stage")>>)}
      ELSE {Outcome("success",
                    [f EXCEPT
                       !.stages = SelectSeq(@, LAMBDA st :
                                    st.name \notin SeqToSet(op.stages)),
                       !.allocs = @ \ w.mv,
                       !.calls = Append(@, [callee |-> func.name,
                                            operands |-> w.all,
                                            at |-> at]),
                       !.outlined = Append(@, func)],
                    <<>>)}

(***************************************************************************)
(* Outline specification: a caller with the argument A, the allocation B   *)
(* and the stages s1, s2, s3, of which one or two are outlined.            *)
(***************************************************************************)
Accesses == {[op |-> o, mem |-> a] : o \in {"load", "store"}, a \in {"A", "B"}}
Bodies == UNION {[1..n -> Accesses] : n \in 1..MaxAcc}

InitOutline ==
  /\ \E b1 \in Bodies, b2 \in Bodies, b3 \in [1..1 -> Accesses] :
       fn = [args |-> {"A"}, allocs |-> {"B"},
             stages |-> <<[name |-> "s1", acc |-> b1],
                          [name |-> "s2", acc |-> b2],
                          [name |-> "s3", acc |-> b3]>>,
             calls |-> <<>>, outlined |-> <<>>]
  /\ arr = NoArray
  /\ last = [op |-> NoOp, res |-> "none", diags |-> <<>>]
  /\ steps = 0
  /\ ru = NoRun
  /\ drv = NoDriver

Outline ==
  \E names \in {<<"s1">>, <<"s2">>, <<"s1", "s2">>, <<"s2", "s1">>,
                 <<"s1", "s3">>, <<"s1", "q">>} :
    LET op == [kind |-> "outline", stages |-> names]
    IN  Apply(op, RunOutline(fn, op))

NextOutline == Outline
SpecOutline == InitOutline /\ [][NextOutline]_vars

AccessedBy(sts) ==
  UNION {{sts[k].acc[i].mem : i \in 1..Len(sts[k].acc)} : k \in 1..Len(sts)}
OutlineCase == last.op.kind = "outline" /\ last.res = "success"

\* C17: after outline, every array the outlined stages access is either a
\* parameter of the new function, exactly once, with the call passing the
\* caller's array at the same position, or an allocation inside the new
\* function; nothing in the new function refers to a value of the caller.
C17_OutlinedArrays ==
  OutlineCase =>
    LET g == fn.outlined[1]
        c == fn.calls[1]
    IN  \A x \in AccessedBy(g.stages) :
          \/ /\ Cardinality({k \in 1..Len(g.params) : g.params[k] = x}) = 1
             /\ \A k \in 1..Len(g.params) :
                  g.params[k] = x => c.operands[k] = x
             /\ x \in fn.args \cup fn.allocs
             /\ x \notin g.allocs
          \/ /\ x \notin SeqToSet(g.params)
             /\ x \in g.allocs

\* C18: outline moves the allocation of an array into the outlined function
\* only if no statement outside the outlined stages reads or writes the
\* array; otherwise the allocation stays in the caller and the array is
\* passed as an argument.
C18_AllocMovedOnlyIfPrivate ==
  OutlineCase =>
    LET g == fn.outlined[1]
        c == fn.calls[1]
    IN  /\ \A x \in g.allocs : x \notin AccessedBy(fn.stages)
        /\ \A x \in AccessedBy(g.stages) \cap AccessedBy(fn.stages) :
             /\ x \in fn.args \cup fn.allocs
             /\ x \in SeqToSet(c.operands)

(***************************************************************************)
(* Names and stage tags of the loops that split, tile, reorder and fuse    *)
(* leave.                                                                  *)
(***************************************************************************)
\* The loops named outer and inner of stage t are the tile-space and the
\* intra-tile loop of a loop of trip count N tiled by factor.
NamedPair(t, outer, inner, N, factor) ==
  LET po == FindLoop(t, outer)
      pi == FindLoop(t, inner)
  IN  /\ po # 0 /\ pi # 0 /\ po < pi
      /\ \A o \in 0..(CeilDiv(N, factor) - 1) :
            UbValue(t.loops[pi], (t.loops[po].id :> o), t.defs) <= factor
      /\ \E b \in NormApplies(t, t.loops[pi].id) :
            TiledPair(t, po, pi, N, factor, b)

\* The last n handles of g are named after the loops at depths p, p + 1,
\* ... of stage t, in this order.
HandlesResolve(g, t, p, n) ==
  /\ Len(g.handles) >= n
  /\ \A k \in 1..n :
       LET h == g.handles[Len(g.handles) - n + k]
       IN  h.kind = "loop" /\ FindLoop(t, h.name) = p + k - 1

SplitNamed(f, g, op) ==
  LET s == GetStage(f, op.stage)
      p == FindLoop(f.stages[s], op.loop)
      t == g.stages[s]
  IN  /\ NamedPair(t, op.loop \o <<".outer">>, op.loop \o <<".inner">>,
                   f.stages[s].loops[p].ub[1].c, op.factor)
      /\ HandlesResolve(g, t, p, 2)

TileNamed(f, g, op) ==
  LET s == GetStage(f, op.stage)
      st == f.stages[s]
      p == FindContiguousNestedLoops(st, <<op.x, op.y>>)
      t == g.stages[s]
  IN  /\ NamedPair(t, op.x \o <<".outer">>, op.x \o <<".inner">>,
                   st.loops[p].ub[1].c, op.xf)
      /\ NamedPair(t, op.y \o <<".outer">>, op.y \o <<".inner">>,
                   st.loops[p + 1].ub[1].c, op.yf)
      /\ HandlesResolve(g, t, p, 4)

\* C19: the names of the loops that split and tile produce match their
\* roles.  After split(n, f) the loop named n.outer encloses the loop named
\* n.inner, which is the intra-tile loop (trip count at most f); after
\* tile(x, y, fx, fy) x.outer and y.outer name the tile loops of x and y,
\* x.inner and y.inner their intra-tile loops, and the result handles in
\* order resolve to the loops of the produced nest.
C19_NamesMatchRoles ==
  [][/\ (SplitCase(fn, last'.op) /\ last'.res = "success") =>
          SplitNamed(fn, fn', last'.op)
     /\ (TileCase(fn, last'.op) /\ last'.res = "success") =>
          TileNamed(fn, fn', last'.op)]_vars

(***************************************************************************)
(* Sequences of schedule statements on the stage "s": each statement is    *)
(* applied to the function the statements before it have left.             *)
(***************************************************************************)
MaxSeq == 3

InitSeq ==
  /\ fn \in {FuncOf(n1, 3, 2) : n1 \in 3..MaxExtent}
  /\ arr = NoArray
  /\ last = [op |-> NoOp, res |-> "none", diags |-> <<>>]
  /\ steps = 0
  /\ ru = NoRun
  /\ drv = NoDriver

\* The next statement of the sequence, run after a successful one.
ApplySeq(op, outs) ==
  /\ steps < MaxSeq
  /\ last.res \in {"none", "success"}
  /\ \E o \in outs :
       /\ fn' = o.f
       /\ last' = [op |-> op, res |-> o.res, diags |-> o.diags]
  /\ steps' = steps + 1
  /\ UNCHANGED <<arr, ru, drv>>

SeqSplit ==
  \E ln \in LoopArgs(fn) :
    LET op == [kind |-> "split", stage |-> "s", loop |-> ln, factor |-> 2]
    IN  ApplySeq(op, RunSplitting(fn, op))

SeqTile ==
  \E x \in LoopArgs(fn), y \in LoopArgs(fn) :
    LET op == [kind |-> "tile", stage |-> "s", x |-> x, y |-> y, xf |-> 2,
               yf |-> 2]
    IN  ApplySeq(op, RunTiling(fn, op))

SeqReorder ==
  \E ls \in ArgLists(fn) :
    LET op == [kind |-> "reorder", stage |-> "s", loops |-> ls]
    IN  ApplySeq(op, RunReordering(fn, op))

SeqFuse ==
  \E ls \in ArgLists(fn) :
    LET op == [kind |-> "fuse", stage |-> "s", loops |-> ls]
    IN  ApplySeq(op, RunFusing(fn, op))

NextSeq == SeqSplit \/ SeqTile \/ SeqReorder \/ SeqFuse
SpecSeq == InitSeq /\ [][NextSeq]_vars

\* C20: after any sequence of successful split, tile, reorder and fuse
\* statements on a stage, exactly one loop of the stage carries the stage
\* tag, this loop is the outermost loop of the stage, and the value of the
\* tag is the original stage name, so that the stage is found by name.
C20_StageTagOutermost ==
  last.res \in {"none", "success"} =>
    /\ {p \in 1..Len(fn.stages[1].loops) :
          hasAttr(fn.stages[1].loops[p], "stage_name")} = {1}
    /\ fn.stages[1].loops[1].attrs["stage_name"] = "s"
    /\ GetStage(fn, "s") = 1

\* A reorder has moved another loop to the outside of a nest that an
\* earlier statement had split or tiled.
C20_Witness ==
  /\ steps = 2
  /\ last.op.kind = "reorder"
  /\ last.res = "success"
  /\ Len(fn.stages[1].loops) > 3
  /\ fn.stages[1].loops[1].name \notin {<<"i">>, <<"i", ".outer">>}

(***************************************************************************)
(* Handles across statements of one program.                               *)
(***************************************************************************)
LoopNotFound(e) ==
  /\ e.res = "failure"
  /\ \E i \in 1..Len(e.diags) : e.diags[i] = Error("Cannot find Loop")

\* Statement k is a split that follows the successful split j of loop n of
\* the same stage.
AfterSplit(j, k) ==
  /\ j < k /\ k <= Len(drv.log)
  /\ drv.prog[j].kind = "split" /\ drv.prog[k].kind = "split"
  /\ drv.prog[j].def = 0
  /\ drv.prog[j].stage = drv.prog[k].stage
  /\ drv.log[j].res = "success"

RepartitionCase(a, op) ==
  LET rank == Len(a.shape)
  IN  /\ op.kind = "partition"
      /\ op.dim \in 1..rank
      /\ Len(a.layout) = 2 * rank
      /\ a.layout[op.dim] = Cst(0)
      /\ a.layout[rank + op.dim] = Dim(op.dim)
      /\ \E A \in 1..rank : A # op.dim /\ a.layout[A] # Cst(0)

\* C22: when an array already partitioned on dimension A is partitioned
\* again on a different dimension B, a warning is emitted, the layout again
\* has 2 * rank components, and every dimension the second call does not
\* select (A included) keeps the bank component and the physical-offset
\* component the earlier layout map gave it.
C22_RepartitionKeepsLayout ==
  [][(RepartitionCase(arr, last'.op) /\ last'.res = "success") =>
       LET rank == Len(arr.shape)
       IN  /\ \E i \in 1..Len(last'.diags) : last'.diags[i].sev = "warning"
           /\ Len(arr'.layout) = 2 * rank
           /\ \A d \in (1..rank) \ {last'.op.dim} :
                /\ arr'.layout[d] = arr.layout[d]
                /\ arr'.layout[rank + d] = arr.layout[rank + d]]_vars

(***************************************************************************)
(* buffer_at.  A stage is the band `loops` (a loop with the attribute      *)
(* "reduction" is a reduction loop) whose innermost body holds the         *)
(* accesses `acc`; each access also records the band depth `at` whose body *)
(* holds it directly.  After buffer_at the stage keeps the loops down to   *)
(* the axis and `inner` lists, in program order, what the body of the axis *)
(* loop holds: the allocation, the initialisation, the compute loops and   *)
(* the write-back.                                                         *)
(***************************************************************************)
Iv(of, k) == [of |-> of, k |-> k]
Acc(op, mem, idx, val, at) ==
  [op |-> op, mem |-> mem, idx |-> idx, val |-> val, at |-> at]
Item(k, loops, acc, shape) ==
  [k |-> k, loops |-> loops, acc |-> acc, shape |-> shape]
getConstantUpperBound(l) == l.ub[1].c
NewLoop(name, ub) == [name |-> name, ub |-> ub, attrs |-> <<>>]

\* Item `what` of the list taken out and put back right before item `ref`.
\* A move that leaves the list as it is.
MoveKept(items, what, ref) == items
MoveBefore(items, what, ref) ==
  LET w == CHOOSE x \in 1..Len(items) : items[x].k = what
      rest == SelectSeq(items, LAMBDA it : it.k # what)
      r == CHOOSE x \in 1..Len(rest) : rest[x].k = ref
  IN  SubSeq(rest, 1, r - 1) \o <<items[w]>> \o SubSeq(rest, r, Len(rest))

\* The loops a buffer nest is made of: one per extent of ubs, the first
\* one named and tagged "buffer", the last one pipelined with II 1.
BufferNest(ubs, name) ==
  [k \in 1..Len(ubs) |->
     LET l0 == NewLoop(IF k = 1 THEN name ELSE NoName, ubs[k])
         l1 == IF k = 1 THEN setAttr(l0, "buffer", TRUE) ELSE l0
     IN  IF k = Len(ubs) THEN setAttr(l1, "pipeline_ii", 1) ELSE l1]

RunBufferAt(f, op) ==
  LET s == GetStage(f, op.stage)
      st == f.stages[s]
      band == st.loops
      m == Len(band)
      a == FindLoop(st, op.axis)
      Red == {p \in 1..m : hasAttr(band[p], "reduction")}
      nonReductionForOps ==
        SelectSeq([p \in 1..m |-> p],
                  LAMBDA p : ~hasAttr(band[p], "reduction"))
      nn == Len(nonReductionForOps)
      \* 1-based position of the loop at firstReductionIdx
      fr == IF Red = {} THEN m ELSE Min(Red)
      bandIv(p) == Iv("band", band[p].id)
      \* scalar cell
      one == <<Iv("cst", 0)>>
      scalarAcc ==
        [x \in 1..Len(st.acc) |->
           IF st.acc[x].mem = op.target /\ st.acc[x].at = fr
           THEN [st.acc[x] EXCEPT !.mem = "buf", !.idx = one]
           ELSE st.acc[x]]
      scalarItems ==
        <<Item("alloc", <<>>, <<>>, <<1>>),
          Item("init", <<>>, <<Acc("store", "buf", one, "zero", 0)>>, <<>>),
          Item("back", <<>>,
               <<Acc("load", "buf", one, "none", 0),
                 Acc("store", op.target, [p \in 1..(fr - 1) |-> bandIv(p)],
                     "buf", 0)>>, <<>>),
          Item("compute", SubSeq(band, fr, m), scalarAcc, <<>>)>>
      \* general case
      nd == nn - a
      ubs == [k \in 1..nd |->
                getConstantUpperBound(band[nonReductionForOps[a + 1]])]
      first == getLoopName(band[nonReductionForOps[a + 1]])
      initIvs == [k \in 1..nd |-> Iv("init", k)]
      backIvs == [k \in 1..nd |-> Iv("back", k)]
      bufIdx == [k \in 1..nd |-> bandIv(nonReductionForOps[a + k])]
      generalAcc ==
        [x \in 1..Len(st.acc) |->
           IF st.acc[x].mem = op.target
           THEN [st.acc[x] EXCEPT !.mem = "buf", !.idx = bufIdx]
           ELSE st.acc[x]]
      generalItems ==
        <<Item("alloc", <<>>, <<>>, ubs),
          Item("init", BufferNest(ubs, first \o <<"_init">>),
               <<Acc("store", "buf", initIvs, "zero", nd)>>, <<>>),
          Item("back", BufferNest(ubs, first \o <<"_back">>),
               <<Acc("load", "buf", backIvs, "none", nd),
                 Acc("store", op.target,
                     [p \in 1..a |-> bandIv(nonReductionForOps[p])]
                       \o backIvs, "buf", nd)>>, <<>>),
          Item("compute", SubSeq(band, a + 1, m), generalAcc, <<>>)>>
      scalar == a = fr - 1 /\ fr - 1 = nn
      cut == IF scalar THEN fr - 1 ELSE a
      items == IF scalar THEN scalarItems ELSE generalItems
  IN  IF s = 0
      THEN {Outcome("failure", f, <<Error("Cannot find Stage")>>)}
      ELSE IF a = 0
      THEN {Outcome("failure", f, <<Error("Cannot find Loop")>>)}
      ELSE IF a >= m
      THEN {Outcome("failure", f,
                    <<Error("Cannot buffer at the inner-most loop")>>)}
      ELSE IF a - 1 >= fr - 1
      THEN {Outcome("failure", f,
                    <<Error("Cannot buffer inside the reduction loops")>>)}
      ELSE {Outcome("success",
                    SetStage(f, s,
                             [st EXCEPT !.loops = SubSeq(band, 1, cut),
                                        !.acc = <<>>,
                                        !.inner =
                                          MoveBefore(items, "compute",
                                                     "back")]),
                    <<>>)}

(***************************************************************************)
(* buffer_at specification: bands of two or three loops with extents of    *)
(* their own, any of them a reduction loop, whose body loads and stores    *)
(* the target T at the non-reduction induction variables and loads A.      *)
(***************************************************************************)
BandNames == <<<<"i">>, <<"j">>, <<"k">>>>
BufferStage(ext, red) ==
  LET m == Len(ext)
      loops == [p \in 1..m |->
                  LET l == ForLoop(p, BandNames[p], ext[p],
                                   IF p = 1 THEN "s" ELSE NoStage)
                  IN  IF red[p] THEN setAttr(l, "reduction", TRUE) ELSE l]
      nr == SelectSeq([p \in 1..m |-> p], LAMBDA p : ~red[p])
      tIdx == [x \in 1..Len(nr) |-> Iv("band", nr[x])]
  IN  [loops |-> loops,
       acc |-> <<Acc("load", "T", tIdx, "none", m),
                 Acc("load", "A", [p \in 1..m |-> Iv("band", p)], "none", m),
                 Acc("store", "T", tIdx, "acc", m)>>,
       inner |-> <<>>]

InitBufferAt ==
  /\ \E m \in 2..3 :
       \E ext \in [1..m -> 2..MaxFactor], red \in [1..m -> BOOLEAN] :
         fn = [stages |-> <<BufferStage(ext, red)>>, handles |-> <<>>]
  /\ arr = NoArray
  /\ last = [op |-> NoOp, res |-> "none", diags |-> <<>>]
  /\ steps = 0
  /\ ru = NoRun
  /\ drv = NoDriver

BufferAt ==
  \E sn \in StageArgs, ln \in {<<"i">>, <<"j">>, <<"k">>, <<"z">>} :
    LET op == [kind |-> "buffer_at", stage |-> sn, axis |-> ln,
               target |-> "T"]
    IN  Apply(op, RunBufferAt(fn, op))

NextBufferAt == BufferAt
SpecBufferAt == InitBufferAt /\ [][NextBufferAt]_vars

\* A buffer_at on the stage succeeded in this step, in the general case.
BufferedGeneral ==
  /\ last'.op.kind = "buffer_at"
  /\ last'.res = "success"
  /\ fn'.stages[1].inner[1].shape # <<1>>
\* The non-reduction loops strictly inside the axis, in nesting order.
InnerNonReduction ==
  LET band == fn.stages[1].loops
      a == FindLoop(fn.stages[1], last'.op.axis)
  IN  SelectSeq(SubSeq(band, a + 1, Len(band)),
                LAMBDA l : ~hasAttr(l, "reduction"))
Extents(loops) == [k \in 1..Len(loops) |-> loops[k].ub]

\* C23: in the general case of buffer_at the buffer has one dimension per
\* non-reduction loop strictly inside the axis, in nesting order, dimension
\* j having the constant extent of the j-th such loop, and the
\* initialisation and write-back nests iterate over exactly those extents.
C23_BufferShape ==
  [][BufferedGeneral =>
       LET want == [j \in 1..Len(InnerNonReduction) |->
                      getConstantUpperBound(InnerNonReduction[j])]
           inner == fn'.stages[1].inner
       IN  /\ inner[1].shape = want
           /\ Extents(inner[2].loops) = want
           /\ Extents(inner[4].loops) = want]_vars

\* A buffer_at on the stage succeeded in this step.
Buffered == last'.op.kind = "buffer_at" /\ last'.res = "success"
Kinds(items) == [x \in 1..Len(items) |-> items[x].k]
\* Every access of the compute loops is the access the body had, the
\* accesses of the target redirected to the buffer at index idx.
Redirected(old, new, target, idx) ==
  /\ Len(new) = Len(old)
  /\ \A x \in 1..Len(old) :
       IF old[x].mem = target
       THEN new[x] = [old[x] EXCEPT !.mem = "buf", !.idx = idx]
       ELSE new[x] = old[x]

\* What holds of a buffer_at step besides the redirection in the scalar
\* case: the order of the body of the axis loop, the initialisation and
\* the write-back of every cell, the redirection in the general case and
\* the pipelining of the innermost buffer loops.
BufferOrderStep ==
  LET st == fn.stages[1]
      band == st.loops
      a == FindLoop(st, last'.op.axis)
      inner == fn'.stages[1].inner
      shape == inner[1].shape
      nd == Len(shape)
      outer == [p \in 1..a |-> Iv("band", band[p].id)]
  IN  /\ Kinds(inner) = <<"alloc", "init", "compute", "back">>
      /\ fn'.stages[1].loops = SubSeq(band, 1, a)
      /\ inner[3].loops = SubSeq(band, a + 1, Len(band))
      /\ IF BufferedGeneral
         THEN /\ Extents(inner[2].loops) = shape
              /\ inner[2].acc =
                   <<Acc("store", "buf", [k \in 1..nd |-> Iv("init", k)],
                         "zero", nd)>>
              /\ Redirected(st.acc, inner[3].acc, last'.op.target,
                            [k \in 1..nd |->
                               Iv("band", InnerNonReduction[k].id)])
              /\ Extents(inner[4].loops) = shape
              /\ inner[4].acc =
                   <<Acc("load", "buf", [k \in 1..nd |-> Iv("back", k)],
                         "none", nd),
                     Acc("store", last'.op.target,
                         outer \o [k \in 1..nd |-> Iv("back", k)],
                         "buf", nd)>>
              /\ inner[2].loops[nd].attrs["pipeline_ii"] = 1
              /\ inner[4].loops[nd].attrs["pipeline_ii"] = 1
         ELSE /\ shape = <<1>>
              /\ inner[2].loops = <<>>
              /\ inner[2].acc =
                   <<Acc("store", "buf", <<Iv("cst", 0)>>, "zero", 0)>>
              /\ \A p \in 1..Len(inner[3].loops) :
                   hasAttr(inner[3].loops[p], "reduction")
              /\ inner[4].loops = <<>>
              /\ inner[4].acc =
                   <<Acc("load", "buf", <<Iv("cst", 0)>>, "none", 0),
                     Acc("store", last'.op.target, outer, "buf", 0)>>
BufferOrderOnly == [][Buffered => BufferOrderStep]_vars

\* C24: after buffer_at the body of the axis loop holds, in this order, the
\* zero-initialisation of every buffer cell, the original compute loops
\* with every load and store of the target redirected to the buffer, and
\* the write-back of every buffer cell to the target at (induction
\* variables of the loops down to the axis, write-back variables); the
\* innermost initialisation and write-back loops carry pipeline_ii = 1.
\* The scalar case has the same order with a one-cell buffer: store zero,
\* the reduction loop working on the cell, load the cell and store it to
\* the target.
C24_BufferOrder ==
  [][Buffered =>
       /\ BufferOrderStep
       /\ ~BufferedGeneral =>
            Redirected(fn.stages[1].acc, fn'.stages[1].inner[3].acc,
                       last'.op.target, <<Iv("cst", 0)>>)]_vars

\* A compute_at has fused the producer into the consumer in this step: it
\* succeeded without falling back to the splice.
Fused ==
  /\ last'.op.kind = "compute_at"
  /\ last'.res = "success"
  /\ \A i \in 1..Len(last'.diags) : last'.diags[i].sev # "warning"
\* Stage number of the stage tagged n in function f.
StageAt(f, n) ==
  CHOOSE s \in 1..Len(f.stages) : f.stages[s].loops[1].attrs["stage_name"] = n
HasStmt(st, o, b) ==
  \E k \in 1..Len(st.stmts) : st.stmts[k].op = o /\ st.stmts[k].buf = b
\* A statement outside the fused nest reads the producer's array.
OutsideReader(f) ==
  \E s \in 1..Len(f.stages) :
    /\ f.stages[s].loops[1].attrs["stage_name"] \notin {"p", "c"}
    /\ HasStmt(f.stages[s], "load", "p")

\* C25: after a compute_at that fused the loops, the store into the
\* producer's array and the consumer's loads of it are gone from the fused
\* nest and the allocation of the array is removed when nothing else uses
\* the array; when a statement outside the fused nest still reads the
\* array, the store is kept, so that the reader observes the producer's
\* values.
C25_IntermediateRemoved ==
  [][Fused =>
       LET cons == fn'.stages[StageAt(fn', "c")]
       IN  IF OutsideReader(fn)
           THEN HasStmt(cons, "store", "p") /\ "p" \in fn'.allocs
           ELSE /\ ~HasStmt(cons, "store", "p")
                /\ ~HasStmt(cons, "load", "p")
                /\ "p" \notin fn'.allocs]_vars
\* The parts of it that hold of every fusion: the first store into the
\* array and the loads of it are erased, the allocation stays.
FusedErasure ==
  [][Fused =>
       LET cons == fn'.stages[StageAt(fn', "c")]
       IN  /\ ~HasStmt(cons, "load", "p")
           /\ "WAW" \notin fn.deps => ~HasStmt(cons, "store", "p")
           /\ "p" \in fn'.allocs]_vars

\* A compute_at has taken the fallback path in this step and returned
\* success, the axis naming a loop of the consumer.
SplicedAt ==
  /\ last'.op.kind = "compute_at"
  /\ last'.res = "success"
  /\ \E i \in 1..Len(last'.diags) : last'.diags[i].sev = "warning"
  /\ FindLoop(fn.stages[StageAt(fn, "c")], last'.op.axis) # 0

\* C26: on the fallback path of compute_at, the named consumer loop being
\* at depth d, the statements moved are the body of the producer's loop at
\* the same depth d, whatever the number of loops of producer and
\* consumer; they are placed before the consumer's own statements in the
\* body of the named consumer loop, and the producer stage is erased.
C26_SpliceSameDepth ==
  [][SplicedAt =>
       LET prod == fn.stages[StageAt(fn, "p")]
           cons == fn.stages[StageAt(fn, "c")]
           d == FindLoop(cons, last'.op.axis)
           moved == [k \in 1..Len(prod.stmts) |->
                       [prod.stmts[k] EXCEPT
                          !.at = d,
                          !.inner = SubSeq(prod.loops, d + 1,
                                           Len(prod.loops))]]
       IN  /\ \A s \in 1..Len(fn'.stages) :
                fn'.stages[s].loops[1].attrs["stage_name"] # "p"
           /\ fn'.stages[StageAt(fn', "c")].stmts = moved \o cons.stmts]_vars
\* The same with producer and consumer of the same number of loops.
SpliceEqualDepth ==
  [][(SplicedAt /\ Len(fn.stages[StageAt(fn, "p")].loops)
                     = Len(fn.stages[StageAt(fn, "c")].loops)) =>
       LET prod == fn.stages[StageAt(fn, "p")]
           cons == fn.stages[StageAt(fn, "c")]
           d == FindLoop(cons, last'.op.axis)
       IN  fn'.stages[StageAt(fn', "c")].stmts =
             [k \in 1..Len(prod.stmts) |->
                [prod.stmts[k] EXCEPT
                   !.at = d,
                   !.inner = SubSeq(prod.loops, d + 1, Len(prod.loops))]]
               \o cons.stmts]_vars

\* The source program is the stencil out[i] = f(a[i], ..., a[i + D]) with
\* D >= 1: its loads are at the offsets 0, 1, ..., D in this order.
Stencil ==
  /\ Len(ru.offs) >= 2
  /\ ru.offs = [k \in 1..Len(ru.offs) |-> k - 1]
\* The output indices stored by the iterations 0 .. n - 1 of the rewritten
\* loop of stage st, one per iteration that passes the guards.
StoredAt(st, n) ==
  [v \in {w \in 0..(n - 1) :
            \A g \in 1..Len(st.guard) : w - st.guard[g].cst >= 0}
     |-> LFEval(st.store, (1 :> v), <<>>)]

ReorderPermutes ==
  /\ steps' = steps + 1
  /\ last'.op.kind = "reorder"
  /\ Len(last'.op.loops) >= 2
  /\ GetStage(fn, last'.op.stage) # 0
  /\ PerfectNest(fn.stages[GetStage(fn, last'.op.stage)]) >= 2
\* The permMap the call builds.
PermMapOf(f, op) ==
  LET st == f.stages[GetStage(f, op.stage)]
  IN  PermMap([i \in 1..PerfectNest(st) |-> getLoopName(st.loops[i])],
              op.loops)

\* C28: a reorder call that reaches the permutation step does so with a
\* permMap that is a bijection on the depths of the nest, also when an
\* argument names a loop that is not in the nest or the same loop twice; a
\* call whose arguments cannot be made into a bijection fails with an error
\* and leaves the nest and the stage tag as they were.
C28_PermMapBijection ==
  [][ReorderPermutes =>
       \/ IsPermutation(PermMapOf(fn, last'.op)) /\ last'.res = "success"
       \/ /\ last'.res = "failure"
          /\ HasError(last'.diags)
          /\ fn' = fn]_vars
\* The same for arguments that are distinct loops of the nest.
PermMapOfNestLoops ==
  [][(ReorderPermutes
        /\ SeqToSet(last'.op.loops) \subseteq LoopNames(fn)
        /\ Cardinality(SeqToSet(last'.op.loops)) = Len(last'.op.loops)) =>
       IsPermutation(PermMapOf(fn, last'.op)) /\ last'.res = "success"]_vars

\* An outline has succeeded in this step.
Outlined ==
  steps' = steps + 1 /\ last'.op.kind = "outline" /\ last'.res = "success"
\* Position of the stage named n in function f.
PosOf(f, n) == CHOOSE k \in 1..Len(f.stages) : f.stages[k].name = n
Share(s, t) ==
  \E i \in 1..Len(s.acc), j \in 1..Len(t.acc) : s.acc[i].mem = t.acc[j].mem

\* C29: outline preserves the execution order.  In the new function the
\* outlined stages are in the order they had in the caller, whatever the
\* order of the stage arguments; and for every stage left in the caller
\* that accesses an array an outlined stage accesses, the call is on the
\* side of it where that outlined stage was.
C29_OutlineKeepsOrder ==
  [][Outlined =>
       LET g == fn'.outlined[1]
           c == fn'.calls[1]
       IN  /\ \A a, b \in 1..Len(g.stages) :
                a < b => PosOf(fn, g.stages[a].name)
                           < PosOf(fn, g.stages[b].name)
           /\ \A o \in 1..Len(g.stages), t \in 1..Len(fn'.stages) :
                Share(g.stages[o], fn'.stages[t]) =>
                  (PosOf(fn, g.stages[o].name)
                     < PosOf(fn, fn'.stages[t].name)) <=> (c.at < t)]_vars
\* The same for stages that are next to each other in the caller and are
\* given in the caller's order.
OutlineAdjacentInOrder ==
  [][(Outlined /\ last'.op.stages \in {<<"s1">>, <<"s2">>, <<"s1", "s2">>}) =>
       LET g == fn'.outlined[1]
           c == fn'.calls[1]
       IN  /\ \A a, b \in 1..Len(g.stages) :
                a < b => PosOf(fn, g.stages[a].name)
                           < PosOf(fn, g.stages[b].name)
           /\ \A o \in 1..Len(g.stages), t \in 1..Len(fn'.stages) :
                (PosOf(fn, g.stages[o].name)
                   < PosOf(fn, fn'.stages[t].name)) <=> (c.at < t)]_vars

(***************************************************************************)
(* Failure specification: one of reorder, fuse, partition, reuse_at and    *)
(* buffer_at is applied once to a program it can be applied to: reorder    *)
(* and fuse to the nest i, j, k, partition to an array, reuse_at to a      *)
(* stencil stage, buffer_at to a band with reduction loops.                *)
(***************************************************************************)
OnNest == Len(fn.stages) = 1 /\ "body" \in DOMAIN fn.stages[1]
OnArray == arr # NoArray
OnStencil == ru.st # "none"
OnBand == Len(fn.stages) = 1 /\ "inner" \in DOMAIN fn.stages[1]

InitFailure == InitLoop \/ InitArray \/ InitReuse \/ InitBufferAt
NextFailure ==
  \/ OnNest /\ Reorder
  \/ OnNest /\ Fuse
  \/ OnArray /\ Partition
  \/ OnStencil /\ ReuseAt
  \/ OnBand /\ BufferAt
SpecFailure == InitFailure /\ [][NextFailure]_vars

\* C30: a reorder, fuse, partition, reuse_at or buffer_at that returns
\* failure has changed nothing: loop nests, loop names and attributes,
\* array types, allocations and handle bindings are what they were before
\* the statement ran.
C30_FailureAtomic ==
  [][(steps' = steps + 1
        /\ last'.op.kind \in {"reorder", "fuse", "partition", "reuse_at",
                              "buffer_at"}
        /\ last'.res = "failure") =>
       fn' = fn /\ arr' = arr /\ ru' = ru]_vars
\* reuse_at has failed at step 7, on loads without a reuse pattern.
C30_Witness ==
  /\ last.op.kind = "reuse_at"
  /\ last.res = "failure"
  /\ \E i \in 1..Len(last.diags) :
       last.diags[i] = Error("Cannot find reuse pattern on axis")

====
